---- MODULE Spec2Model ----
(***************************************************************************)
(* A model of the YApi MCP server: the credential table and the two cache  *)
(* maps of YApiService (src/src/services/yapi/api.ts), its multi-project   *)
(* search, and the cache start-up and refresh of YapiMcpServer             *)
(* (src/unnamed/part_001), with its registered tools and its debug         *)
(* endpoint.  Spec, SpecSearch, SpecPages, SpecCategories,                 *)
(* SpecCalls, SpecTools and SpecSave write the project ids as numbers;     *)
(* SpecCredentials, which parses credential strings, has them as the       *)
(* strings they are.                                                       *)
(*                                                                         *)
(* JavaScript runs one macrotask at a time and drains every promise        *)
(* continuation before the next one: an action below is one macrotask (a   *)
(* call from outside, or the arrival of one HTTP response) together with   *)
(* all the continuations it wakes, up to the next point where the code     *)
(* waits for the network.  The requests that wait are a bag: two calls     *)
(* that ask for the same thing have two requests in flight.                *)
(*                                                                         *)
(* Strings the code inspects (toLowerCase, includes, trim) are sequences   *)
(* of one-character strings.                                               *)
(***************************************************************************)
EXTENDS Integers, Sequences, FiniteSets, Bags, TLC

(***************************************************************************)
(* Bounds of the model.                                                    *)
(***************************************************************************)
\* the largest page number a search asks for
MaxPage == 2
\* the largest number of keywords of one class in one search
MaxKeywords == 2
\* the largest page size (limit) a search is called with
MaxLimit == 2
\* the number of searches one behaviour runs, one after the other
MaxSearches == 2
\* the largest number of comma-separated entries of a credential string
MaxEntries == 3
\* the largest number of calls from outside that wait at the same time
MaxOverlap == 2
\* the largest number of JSON-encoded fields one save supplies
MaxSupplied == 2

(***************************************************************************)
(* String helpers: what String.prototype.toLowerCase, includes and trim do *)
(* on the characters the model uses.                                       *)
(***************************************************************************)
LowerOf ==
    [c \in {"A", "D", "G", "H", "L", "O", "P", "S", "V"} |->
        CASE c = "A" -> "a" [] c = "D" -> "d" [] c = "G" -> "g" [] c = "H" -> "h"
          [] c = "L" -> "l" [] c = "O" -> "o" [] c = "P" -> "p" [] c = "S" -> "s"
          [] c = "V" -> "v"]

ToLowerChar(c) == IF c \in DOMAIN LowerOf THEN LowerOf[c] ELSE c

toLowerCase(s) == [i \in 1..Len(s) |-> ToLowerChar(s[i])]

\* s.includes(k): k occurs in s as a contiguous run; the empty k always does
includes(s, k) ==
    \E i \in 0..(Len(s) - Len(k)) : \A j \in 1..Len(k) : s[i + j] = k[j]

RECURSIVE TrimLeft(_)
TrimLeft(s) == IF s /= <<>> /\ Head(s) = " " THEN TrimLeft(Tail(s)) ELSE s

RECURSIVE TrimRight(_)
TrimRight(s) ==
    IF s /= <<>> /\ s[Len(s)] = " " THEN TrimRight(SubSeq(s, 1, Len(s) - 1)) ELSE s

trim(s) == TrimRight(TrimLeft(s))

\* String(n) for the one-digit ids of the model
String(n) ==
    CASE n = 0 -> <<"0">> [] n = 1 -> <<"1">> [] n = 2 -> <<"2">> [] n = 3 -> <<"3">>
      [] n = 4 -> <<"4">> [] n = 5 -> <<"5">> [] n = 6 -> <<"6">> [] n = 7 -> <<"7">>
      [] n = 8 -> <<"8">> [] n = 9 -> <<"9">>

(***************************************************************************)
(* The remote service's data: it does not change during a behaviour.       *)
(* Project 3 is a project of the remote that a previous run of the server  *)
(* was configured for.                                                     *)
(***************************************************************************)
ProjectIds == {1, 2, 3}

\* The body of /api/project/get for project p.  rev 0 is the value a
\* previous run of the server fetched and persisted, rev 1 the value the
\* remote returns now (project 2 was renamed in between).
ProjectData(p, rev) ==
    CASE p = 1 -> [_id |-> 1, name |-> <<"S", "h", "o", "p">>, desc |-> <<"w", "e", "b">>]
      [] p = 2 -> [_id |-> 2,
                   name |-> IF rev = 0 THEN <<"o", "l", "d">> ELSE <<"P", "a", "y">>,
                   desc |-> <<"s", "h">>]
      [] p = 3 -> [_id |-> 3, name |-> <<"L", "a", "b">>, desc |-> <<>>]

\* The body of /api/interface/list_menu for project p: the categories, each
\* with the list of its interfaces.
MenuData(p) ==
    CASE p = 1 ->
           << [_id |-> 11, name |-> "auth", list |->
                 << [_id |-> 5, title |-> <<"L", "o", "g">>, path |-> <<"/", "a">>,
                     tag |-> << <<"v", "1">> >>],
                    [_id |-> 7, title |-> <<"c", "a", "t">>, path |-> <<"/", "b">>,
                     tag |-> << >>] >>],
              [_id |-> 12, name |-> "misc", list |->
                 << [_id |-> 9, title |-> <<"l", "o", "t">>, path |-> <<"/", "a", "b">>,
                     tag |-> << <<"V", "2">>, <<"x">> >>],
                    [_id |-> 3, title |-> <<"D", "O", "G">>, path |-> <<"/", "A">>,
                     tag |-> << >>] >>] >>
      [] p = 2 ->
           << [_id |-> 21, name |-> "pay", list |->
                 << [_id |-> 8, title |-> <<"l", "O", "g">>, path |-> <<"/", "a">>,
                     tag |-> << <<"x">> >>],
                    [_id |-> 9, title |-> <<"l", "o", "t">>, path |-> <<"/", "b">>,
                     tag |-> << <<"v">> >>] >>] >>
      [] p = 3 ->
           << [_id |-> 31, name |-> "lab", list |->
                 << [_id |-> 4, title |-> <<"l", "o">>, path |-> <<"/", "a">>,
                     tag |-> << >>] >>] >>

\* The body of /api/interface/getCatMenu for project p: its categories.
CategoryData(p) == [i \in 1..Len(MenuData(p)) |->
                       [_id |-> MenuData(p)[i]._id, name |-> MenuData(p)[i].name]]

(***************************************************************************)
(* The credential string (api.ts 24-45).                                   *)
(***************************************************************************)
\* what is left of the piece cur and of s from its i-th character on,
\* split at every sep
RECURSIVE SplitFrom(_, _, _, _)
SplitFrom(s, sep, i, cur) ==
    IF i > Len(s) THEN <<cur>>
    ELSE IF s[i] = sep THEN <<cur>> \o SplitFrom(s, sep, i + 1, <<>>)
    ELSE SplitFrom(s, sep, i + 1, Append(cur, s[i]))

\* String.prototype.split(sep) for a separator of one character: the empty
\* string gives one empty piece
split(s, sep) == SplitFrom(s, sep, 1, <<>>)

\* a table and a default token: tokenMap is a function from project ids to
\* tokens (a Map that is only ever looked up by key)
NoTokens == [tokenMap |-> <<>>, defaultToken |-> <<>>]

\* Map.prototype.set on the table
TableSet(table, k, v) == [x \in DOMAIN table \cup {k} |-> IF x = k THEN v ELSE table[x]]

\* api.ts 33-41, one step of the loop: the first two pieces of the trimmed
\* pair are the id and the token (a missing piece is undefined, which is
\* falsy as the empty string is); no piece of a split at ":" holds a ":",
\* so the else branch is taken by every pair that is not stored
ParsePair(acc, pair) ==
    LET parts == split(trim(pair), ":")
        projectId == parts[1]
        projectToken == IF Len(parts) >= 2 THEN parts[2] ELSE <<>>
    IN  IF projectId /= <<>> /\ projectToken /= <<>>
        THEN [acc EXCEPT !.tokenMap = TableSet(acc.tokenMap, projectId, projectToken)]
        ELSE IF ~includes(projectId, <<":">>)
        THEN [acc EXCEPT !.defaultToken = trim(pair)]
        ELSE acc

RECURSIVE ParsePairsFrom(_, _, _)
ParsePairsFrom(tokenPairs, i, acc) ==
    IF i > Len(tokenPairs) THEN acc
    ELSE ParsePairsFrom(tokenPairs, i + 1, ParsePair(acc, tokenPairs[i]))

\* api.ts 26-42: the table and the default token of a credential string
ParseToken(t) == IF t = <<>> THEN NoTokens ELSE ParsePairsFrom(split(t, ","), 1, NoTokens)

(***************************************************************************)
(* A JavaScript Map as the sequence of its entries, in insertion order.    *)
(***************************************************************************)
MapKeys(m) == {m[i].id : i \in 1..Len(m)}

MapHas(m, k) == k \in MapKeys(m)

\* Map.prototype.set: a new key goes last, a present key keeps its place
MapSet(m, k, v) ==
    IF MapHas(m, k)
    THEN [i \in 1..Len(m) |-> IF m[i].id = k THEN [id |-> k, rev |-> v] ELSE m[i]]
    ELSE Append(m, [id |-> k, rev |-> v])

\* the permutations of a set of keys, each entry holding revision rev
RECURSIVE MapsOver(_, _)
MapsOver(S, rev) ==
    IF S = {} THEN {<<>>}
    ELSE UNION {{Append(m, [id |-> k, rev |-> rev]) : m \in MapsOver(S \ {k}, rev)} : k \in S}

(***************************************************************************)
(* The pure steps of the search (YApiService.searchWithSingleKeyword,      *)
(* deduplicateResults, the end of searchApis).                             *)
(***************************************************************************)
RECURSIVE FlattenFrom(_, _)
FlattenFrom(menu, i) ==
    IF i > Len(menu) THEN <<>>
    ELSE [j \in 1..Len(menu[i].list) |->
            [_id |-> menu[i].list[j]._id, title |-> menu[i].list[j].title,
             path |-> menu[i].list[j].path, tag |-> menu[i].list[j].tag,
             cat_name |-> menu[i].name, catid |-> menu[i]._id]]
         \o FlattenFrom(menu, i + 1)

\* api.ts 543-554: every interface of the menu, with its category's name and id
Flatten(menu) == FlattenFrom(menu, 1)

\* api.ts 560-569
MatchesName(item, keyword) ==
    item.title /= <<>> /\ includes(toLowerCase(item.title), toLowerCase(keyword))

\* api.ts 572-581
MatchesPath(item, keyword) ==
    item.path /= <<>> /\ includes(toLowerCase(item.path), toLowerCase(keyword))

\* a tag filter that compares the letters as they are
MatchesTagCaseSensitive(item, keyword) ==
    \E i \in 1..Len(item.tag) : item.tag[i] /= <<>> /\ includes(item.tag[i], keyword)

\* api.ts 584-601
MatchesTag(item, keyword) ==
    \E i \in 1..Len(item.tag) :
        item.tag[i] /= <<>> /\ includes(toLowerCase(item.tag[i]), toLowerCase(keyword))

\* the place of x in the sequence s, sorted by _id descending, behind its equals
RECURSIVE InsertDesc(_, _)
InsertDesc(s, x) ==
    IF s = <<>> THEN <<x>>
    ELSE IF Head(s)._id >= x._id THEN <<Head(s)>> \o InsertDesc(Tail(s), x)
    ELSE <<x>> \o s

RECURSIVE SortFrom(_, _, _)
SortFrom(s, i, acc) ==
    IF i > Len(s) THEN acc ELSE SortFrom(s, i + 1, InsertDesc(acc, s[i]))

\* api.ts 604: the stable sort by (b._id || 0) - (a._id || 0)
SortByIdDesc(s) == SortFrom(s, 1, <<>>)

\* api.ts 556-609: the filters a query applies to the flattened menu, then the sort
FilterMenu(menu, q) ==
    LET all == Flatten(menu)
        KeepName(item) == q.keyword = <<>> \/ MatchesName(item, q.keyword)
        KeepPath(item) == q.path = <<>> \/ MatchesPath(item, q.path)
        KeepTag(item) == q.tag = <<>> \/ MatchesTag(item, q.tag)
    IN  SortByIdDesc(SelectSeq(SelectSeq(SelectSeq(all, KeepName), KeepPath), KeepTag))

\* a searchWithSingleKeyword whose catch (api.ts 610-614) throws again
searchWithSingleKeywordRethrows(projectId, q, ok) ==
    IF ok THEN [threw |-> FALSE, list |-> FilterMenu(MenuData(projectId), q)]
    ELSE [threw |-> TRUE, list |-> <<>>]

\* api.ts 520-615: the outcome of one fetch-and-filter; ok says whether the
\* menu fetch succeeded.  A failure is caught and gives the empty list.
searchWithSingleKeyword(projectId, q, ok) ==
    IF ok THEN [threw |-> FALSE, list |-> FilterMenu(MenuData(projectId), q)]
    ELSE [threw |-> FALSE, list |-> <<>>]

\* a deduplication that keeps the last occurrence of an id, not the first
RECURSIVE DedupLastFrom(_, _)
DedupLastFrom(results, i) ==
    IF i > Len(results) THEN <<>>
    ELSE IF \E m \in (i + 1)..Len(results) : results[m]._id = results[i]._id
    THEN DedupLastFrom(results, i + 1)
    ELSE <<results[i]>> \o DedupLastFrom(results, i + 1)

deduplicateKeepsLast(results) == DedupLastFrom(results, 1)

RECURSIVE DedupFrom(_, _, _)
DedupFrom(results, i, seen) ==
    IF i > Len(results) THEN <<>>
    ELSE IF results[i]._id \in seen THEN DedupFrom(results, i + 1, seen)
    ELSE <<results[i]>> \o DedupFrom(results, i + 1, seen \cup {results[i]._id})

\* api.ts 620-631
deduplicateResults(results) == DedupFrom(results, 1, {})

Min(a, b) == IF a < b THEN a ELSE b

\* Array.prototype.slice(0, limit) for limit >= 0
SliceTo(s, limit) == SubSeq(s, 1, Min(limit, Len(s)))

\* a result whose total is counted after the truncation
SearchResultCountsPage(allResults, limit) ==
    LET deduplicated == deduplicateResults(allResults)
    IN  [total |-> Len(SliceTo(deduplicated, limit)), list |-> SliceTo(deduplicated, limit)]

\* api.ts 491-502
SearchResult(allResults, limit) ==
    LET deduplicated == deduplicateResults(allResults)
    IN  [total |-> Len(deduplicated), list |-> SliceTo(deduplicated, limit)]

\* an enrichment that lets go of the items whose category it cannot look up
EnrichDropsUnnamed(list, project, cats) ==
    LET Named(item) == \E j \in 1..Len(cats) : cats[j]._id = item.catid
        kept == SelectSeq(list, Named)
    IN  [i \in 1..Len(kept) |->
            [_id |-> kept[i]._id, catid |-> kept[i].catid,
             project_name |-> project.name,
             cat_name |-> cats[CHOOSE j \in 1..Len(cats) : cats[j]._id = kept[i].catid].name]]

\* api.ts 455-482: the project's name, and the category's name when the
\* category list (cats, <<>> when its lookup failed) has the item's category
Enrich(list, project, cats) ==
    [i \in 1..Len(list) |->
        LET item == list[i]
            hit == {j \in 1..Len(cats) : cats[j]._id = item.catid}
        IN  [_id |-> item._id, catid |-> item.catid,
             project_name |-> project.name,
             cat_name |-> IF hit = {} THEN item.cat_name
                          ELSE cats[CHOOSE j \in hit : \A k \in hit : j <= k].name]]

(***************************************************************************)
(* The state.                                                              *)
(***************************************************************************)
VARIABLES
    token,              \* the credential string the constructor is given
    tokenMap,           \* YApiService.tokenMap: project id -> token
    defaultToken,       \* YApiService.defaultToken, <<>> when there is none
    projectInfoCache,   \* YApiService.projectInfoCache, a Map: entries [id, rev]
    categoryListCache,  \* the keys of YApiService.categoryListCache
    persisted,          \* the snapshot on disk, a Map like projectInfoCache
    cacheAge,           \* minutes since the snapshot was written, -1: never
    diskFault,          \* the calls of ProjectInfoCache that throw
    infoDown,           \* the projects whose /api/project/get fails
    menuDown,           \* the projects whose /api/interface/list_menu fails
    menuFlaky,          \* the projects whose list_menu fails now and then
    catDown,            \* the projects whose /api/interface/getCatMenu fails
    phase,              \* "constructing", then "ready"
    startup,            \* how the promise of initializeCache settled
    refresh,            \* the run of asyncUpdateCache
    search,             \* the running call of searchApis
    inflight,           \* the bag of HTTP requests that wait for their response
    history,            \* the finished calls of searchApis, oldest first
    reply               \* what the call that returned in the last step gave

vars == <<token, tokenMap, defaultToken, projectInfoCache, categoryListCache, persisted,
          cacheAge, diskFault, infoDown, menuDown, menuFlaky, catDown, phase,
          startup, refresh, search, inflight, history, reply>>

config == <<token, tokenMap, defaultToken, diskFault, infoDown, menuDown, menuFlaky,
            catDown>>

\* no call returned in the step
NoReply == [tool |-> "none"]

\* part_001 line 20: yapiCacheTTL, in minutes
CacheTTL == 10

\* the request of owner o (0: the refresh, n: the n-th search) for project p;
\* the requests of the calls from outside have owner -1 (Asked)
Fetch(o, k, p) == [owner |-> o, kind |-> k, pid |-> p]

\* api.ts 71-73
getToken(projectId) ==
    IF projectId \in DOMAIN tokenMap THEN tokenMap[projectId] ELSE defaultToken

\* api.ts 50-52
getConfiguredProjectIds == DOMAIN tokenMap

(***************************************************************************)
(* ProjectInfoCache (services/yapi/cache) is not among the sources: these  *)
(* three follow the specification's Metadata Cache (4.3).                  *)
(***************************************************************************)
\* an expiry check that takes the age of exactly the TTL for expired
isCacheExpiredAtBoundary == cacheAge < 0 \/ cacheAge >= CacheTTL

isCacheExpired == cacheAge < 0 \/ cacheAge > CacheTTL

loadFromCache == persisted

saveToCache(map) == persisted' = map /\ cacheAge' = 0

(***************************************************************************)
(* The search criteria and the candidates (api.ts 372-429).                *)
(***************************************************************************)
OrEmpty(keywords) == IF keywords = <<>> THEN << <<>> >> ELSE keywords

\* candidates that are looked for by their names alone
CandidatesByNameOnly(cache, crit) ==
    LET keyword == toLowerCase(trim(crit.projectKeyword))
        Matches(e) == includes(toLowerCase(ProjectData(e.id, e.rev).name), keyword)
        projects == IF trim(crit.projectKeyword) /= <<>> THEN SelectSeq(cache, Matches)
                    ELSE cache
    IN  SliceTo(projects, crit.maxProjects)

\* api.ts 397-423
Candidates(cache, crit) ==
    LET keyword == toLowerCase(trim(crit.projectKeyword))
        Matches(e) ==
            LET project == ProjectData(e.id, e.rev)
            IN  \/ includes(toLowerCase(project.name), keyword)
                \/ includes(toLowerCase(project.desc), keyword)
                \/ includes(String(project._id), keyword)
        projects == IF trim(crit.projectKeyword) /= <<>> THEN SelectSeq(cache, Matches)
                    ELSE cache
    IN  SliceTo(projects, IF Len(projects) > crit.maxProjects THEN crit.maxProjects
                          ELSE Len(projects))

\* api.ts 435-446: the fetches of a search, in the order of its four loops
Combos(projects, crit) ==
    LET names == OrEmpty(crit.nameKeyword)
        paths == OrEmpty(crit.pathKeyword)
        tags == OrEmpty(crit.tagKeyword)
        N == Len(names)
        A == Len(paths)
        T == Len(tags)
    IN  [k \in 1..(Len(projects) * N * A * T) |->
            [project |-> projects[((k - 1) \div (N * A * T)) + 1],
             keyword |-> names[(((k - 1) \div (A * T)) % N) + 1],
             path |-> paths[(((k - 1) \div T) % A) + 1],
             tag |-> tags[((k - 1) % T) + 1]]]

\* new Error(message)
Error(message) == [message |-> message]

\* reading a property of undefined
TypeError == Error("Cannot read properties of undefined")

\* `${error}` and String(error): an Error gives its message, the object
\* {status, message} that request throws gives "[object Object]"
Text(error) == IF "status" \in DOMAIN error THEN "[object Object]" ELSE error.message

\* the result of a handler that reports an error
ErrorResult(field, message) == [kind |-> "error", field |-> field, message |-> message]

\* part_001 186-199; an Error has a message alone, the object that request
\* throws has a status too, a thrown primitive has neither
handleSearchError(error, operation) ==
    [kind |-> "error", field |-> "none", message |-> operation,
     detail |-> IF DOMAIN error = {"message"} THEN <<error.message>>      \* 189-191
                ELSE IF "status" \in DOMAIN error THEN <<error>>          \* 192-193
                ELSE <<>>]

\* part_001 429-444 and 458-473: the handler of yapi_search_by_name and of
\* yapi_search_by_path from the moment the search of the service has
\* settled; calls are the HTTP requests the search issued
SearchTool(operation, settled, calls) ==
    [path |-> "tool", calls |-> calls, escaped |-> <<>>,
     result |-> IF settled.thrown /= <<>>                                \* 441-444
                THEN handleSearchError(settled.thrown[1], operation)
                ELSE IF settled.value = <<>>                             \* 121
                THEN handleSearchError(TypeError, operation)
                ELSE [kind |-> "found", field |-> "none",                \* 144
                      total |-> settled.value[1].total,
                      shown |-> Len(settled.value[1].list)]]

\* part_001 667-686 and 759-765: the debug endpoint from the moment the
\* search of the service has settled: it sends the result of the search as
\* it is, or the message of what the search threw
DebugSearch(settled, calls) ==
    [path |-> "debug", calls |-> calls, escaped |-> <<>>,
     result |-> IF settled.thrown /= <<>>                                \* 760-765
                THEN ErrorResult("none", Text(settled.thrown[1]))
                ELSE [kind |-> "found", field |-> "none",                \* 759
                      total |-> settled.value[1].total,
                      shown |-> Len(settled.value[1].list)]]

\* part_001 443 and 472: the operation the handler of a tool names in its
\* error text
OperationOf(tool) ==
    IF tool = "yapi_search_by_name" THEN "search by name" ELSE "search by path"

\* the HTTP request of a fetch (api.ts 127, 179, 277)
CallOf(f) ==
    [endpoint |-> CASE f.kind = "info" -> "/api/project/get"
                    [] f.kind = "cat" -> "/api/interface/getCatMenu"
                    [] f.kind = "menu" -> "/api/interface/list_menu",
     params |-> IF f.kind = "info" THEN [id |-> f.pid] ELSE [project_id |-> f.pid],
     method |-> "GET"]

\* the requests of kind k for the projects of S, in the order of the
\* credential table (its ids ascend)
RECURSIVE CallsFor(_, _)
CallsFor(k, S) ==
    IF S = {} THEN <<>>
    ELSE LET first == CHOOSE p \in S : \A q \in S : p <= q
         IN  <<CallOf(Fetch(0, k, first))>> \o CallsFor(k, S \ {first})

\* n times the request x
Times(x, n) == [i \in 1..n |-> x]

\* the bag of n requests f
Copies(f, n) == [x \in {f} |-> n]

Idle == [pc |-> "idle", crit |-> <<>>, projects |-> <<>>, idx |-> 0,
         allResults |-> <<>>, pending |-> <<>>, failed |-> {},
         tool |-> "none", path |-> "none", input |-> <<>>, calls |-> <<>>]

\* who runs a search: the tool whose handler called it ("none": a call of
\* searchApis itself) and on which entry path (the registered tool or the
\* debug endpoint), what the tool was called with, and the HTTP requests the
\* search has issued
Direct == [tool |-> "none", path |-> "none", input |-> <<>>, calls |-> <<>>]

Running == [tool |-> search.tool, path |-> search.path, input |-> search.input,
            calls |-> search.calls]

\* the owner number of the running search
Current == Len(history) + 1

\* a search that keeps the menu of a project for its next combinations and
\* fetches once per project
RECURSIVE NextFetchOncePerProject(_, _)
NextFetchOncePerProject(combos, i) ==
    IF i > Len(combos) THEN i
    ELSE IF /\ getToken(combos[i].project.id) /= <<>>
            /\ (i = 1 \/ combos[i - 1].project.id /= combos[i].project.id)
    THEN i
    ELSE NextFetchOncePerProject(combos, i + 1)

\* the first fetch from the i-th on that has a token: request() throws at
\* once for the others (api.ts 80-84), and their combination gives nothing
RECURSIVE NextFetch(_, _)
NextFetch(combos, i) ==
    IF i > Len(combos) THEN i
    ELSE IF getToken(combos[i].project.id) /= <<>> THEN i
    ELSE NextFetch(combos, i + 1)

\* a search that returns the page of its criteria, not the first limit
\* entries
FinishedPaged(crit, projects, threw, allResults, failed) ==
    [crit |-> crit, projects |-> projects, threw |-> threw, failed |-> failed,
     allResults |-> allResults,
     result |-> IF threw THEN [total |-> 0, list |-> <<>>]
                ELSE LET all == deduplicateResults(allResults)
                         from == (crit.page - 1) * crit.limit
                     IN  [total |-> Len(all),
                          list |-> SubSeq(all, from + 1, Min(from + crit.limit, Len(all)))]]

\* The record of a finished search: what it was called with and what it
\* returned (result), and on the way the candidates, the fetches that failed
\* and the concatenation (api.ts 485) it built.
Finished(crit, projects, threw, allResults, failed) ==
    [crit |-> crit, projects |-> projects, threw |-> threw, failed |-> failed,
     allResults |-> allResults,
     result |-> IF threw THEN [total |-> 0, list |-> <<>>]
                ELSE SearchResult(allResults, crit.limit)]

\* api.ts 499-502 and 513: the search settles, its record joins the history
\* and the handler that called it returns (part_001 440, 469, 671-685)
SearchEnds(run, finished, fl) ==
    /\ history' = Append(history, finished)
    /\ search' = Idle
    /\ inflight' = fl
    /\ reply' =
         IF run.tool = "none" THEN NoReply
         ELSE LET settled == IF finished.threw
                             THEN [thrown |-> <<Error("search failed")>>, value |-> <<>>]
                             ELSE [thrown |-> <<>>, value |-> <<finished.result>>]
                  handled == IF run.path = "debug" THEN DebugSearch(settled, run.calls)
                             ELSE SearchTool(OperationOf(run.tool), settled, run.calls)
              IN  [tool |-> run.tool, input |-> run.input, settled |-> settled,
                   path |-> handled.path, calls |-> handled.calls,
                   escaped |-> handled.escaped, result |-> handled.result]

\* api.ts 435-502, from the i-th fetch on: issue the next fetch, or finish
SearchContinue(run, crit, projects, allResults, i, failed, fl) ==
    LET combos == Combos(projects, crit)
        j == NextFetch(combos, i)
        failed2 == failed \cup (i..(j - 1))
    IN  IF j > Len(combos)
        THEN SearchEnds(run, Finished(crit, projects, FALSE, allResults, failed2), fl)
        ELSE LET f == Fetch(Current, "menu", combos[j].project.id)
             IN  /\ search' = [pc |-> "menu", crit |-> crit, projects |-> projects,
                               idx |-> j, allResults |-> allResults, pending |-> <<>>,
                               failed |-> failed2, tool |-> run.tool, path |-> run.path,
                               input |-> run.input,
                               calls |-> Append(run.calls, CallOf(f))]
                 /\ inflight' = fl (+) SetToBag({f})
                 /\ reply' = NoReply
                 /\ UNCHANGED history

\* a search whose loadAllProjectInfo has no catch, so that the failure of a
\* project-info request fails the search
SearchAfterLoadRejects(run, crit, cache, fl) ==
    LET projects == Candidates(cache, crit)
    IN  IF \E p \in getConfiguredProjectIds : ~MapHas(cache, p)
        THEN SearchEnds(run, Finished(crit, <<>>, TRUE, <<>>, {}), fl)
        ELSE IF projects = <<>>
        THEN SearchEnds(run, Finished(crit, projects, FALSE, <<>>, {}), fl)
        ELSE SearchContinue(run, crit, projects, <<>>, 1, {}, fl)

\* api.ts 397-434: after loadAllProjectInfo
SearchAfterLoad(run, crit, cache, fl) ==
    LET projects == Candidates(cache, crit)
    IN  IF projects = <<>>
        THEN SearchEnds(run, Finished(crit, projects, FALSE, <<>>, {}), fl)
        ELSE SearchContinue(run, crit, projects, <<>>, 1, {}, fl)

\* api.ts 359-396 with 198-215 as searchApis calls it: a request for every
\* configured project that has no entry, or on at once when there is none
searchApis(run, crit) ==
    LET need == {p \in getConfiguredProjectIds : ~MapHas(projectInfoCache, p)}
    IN  IF need = {}
        THEN SearchAfterLoad(run, crit, projectInfoCache, inflight)
        ELSE /\ search' = [Idle EXCEPT !.pc = "loading", !.crit = crit,
                                       !.tool = run.tool, !.path = run.path,
                                       !.input = run.input,
                                       !.calls = run.calls \o CallsFor("info", need)]
             /\ inflight' = inflight (+) SetToBag({Fetch(Current, "info", p) : p \in need})
             /\ reply' = NoReply
             /\ UNCHANGED history

\* A call of searchApis, the max-th of the behaviour at most.
SearchBegin(crit, max) ==
    /\ phase = "ready"
    /\ search.pc = "idle"
    /\ Len(history) < max
    /\ searchApis(Direct, crit)
    /\ UNCHANGED <<config, projectInfoCache, categoryListCache, persisted, cacheAge,
                   phase, startup, refresh>>

\* the outcomes the remote can give a list_menu request for project p
MenuOutcomes(p) ==
    IF p \in menuDown THEN {FALSE} ELSE IF p \in menuFlaky THEN {TRUE, FALSE} ELSE {TRUE}

\* api.ts 442-446
Query(combo) == [keyword |-> combo.keyword, path |-> combo.path, tag |-> combo.tag]

\* The response to the menu request of the running search arrives
\* (api.ts 448-485): filter, then enrich from the cached category list, or
\* ask for the category list, once for every item that was found, each of
\* them finding the cache empty (api.ts 456-469, 118-127).
MenuFetchDone(f, ok) ==
    /\ BagIn(f, inflight)
    /\ f.kind = "menu"
    /\ search.pc = "menu"
    /\ f.owner = Current
    /\ ok \in MenuOutcomes(f.pid)
    /\ LET combo == Combos(search.projects, search.crit)[search.idx]
           r == searchWithSingleKeyword(f.pid, Query(combo), ok)
           rest == inflight (-) SetToBag({f})
           failed == IF ok THEN search.failed ELSE search.failed \cup {search.idx}
           g == Fetch(Current, "cat", f.pid)
       IN  IF r.threw
           THEN SearchEnds(Running, Finished(search.crit, search.projects, TRUE,
                                             search.allResults, failed), rest)
           ELSE IF r.list = <<>>
           THEN SearchContinue(Running, search.crit, search.projects, search.allResults,
                               search.idx + 1, failed, rest)
           ELSE IF f.pid \in categoryListCache
           THEN SearchContinue(Running, search.crit, search.projects,
                               search.allResults
                                   \o Enrich(r.list, ProjectData(combo.project.id, combo.project.rev),
                                             CategoryData(f.pid)),
                               search.idx + 1, failed, rest)
           ELSE /\ search' = [search EXCEPT !.pc = "enrich", !.pending = r.list,
                                            !.failed = failed,
                                            !.calls = @ \o Times(CallOf(g), Len(r.list))]
                /\ inflight' = rest (+) Copies(g, Len(r.list))
                /\ reply' = NoReply
                /\ UNCHANGED history
    /\ UNCHANGED <<config, projectInfoCache, categoryListCache, persisted, cacheAge,
                   phase, startup, refresh>>

\* api.ts 146-164 as asyncUpdateCache calls it (part_001 94): a request for
\* every project of the project map that has no category list; the first
\* rejection ends the wait of Promise.all
loadAllCategoryLists(r, cache, fl) ==
    LET need == {k \in MapKeys(cache) : k \notin categoryListCache}
        asked == {k \in need : getToken(k) /= <<>>}
    IN  /\ inflight' = fl (+) SetToBag({Fetch(0, "cat", k) : k \in asked})
        /\ refresh' = [r EXCEPT !.pc = IF need /= {} /\ asked = need THEN "cats" ELSE "done"]

\* part_001 88-102: asyncUpdateCache after loadAllProjectInfo has returned
RefreshAfterLoad(r, cache, fl) ==
    IF "save" \in diskFault
    THEN /\ refresh' = [r EXCEPT !.pc = "failed"]
         /\ inflight' = fl
         /\ UNCHANGED <<persisted, cacheAge>>
    ELSE /\ saveToCache(cache)
         /\ loadAllCategoryLists(r, cache, fl)

\* The response to a project-info request of the refresh or of a search
\* arrives (api.ts 179-188): a success is stored; the Promise.all of its
\* loadAllProjectInfo (api.ts 210) settles when this is its last response
\* or its first failure, and its caller goes on.
InfoFetchDone(f) ==
    /\ BagIn(f, inflight)
    /\ f.kind = "info"
    /\ f.owner >= 0
    /\ LET ok == f.pid \notin infoDown
           cache == IF ok THEN MapSet(projectInfoCache, f.pid, 1) ELSE projectInfoCache
           rest == inflight (-) SetToBag({f})
           waiting == IF f.owner = 0 THEN refresh.pc = "info"
                      ELSE search.pc = "loading" /\ f.owner = Current
           last == ~\E g \in BagToSet(rest) : g.owner = f.owner /\ g.kind = "info"
           settles == waiting /\ (~ok \/ last)
       IN  /\ projectInfoCache' = cache
           /\ IF settles /\ f.owner = 0
              THEN /\ RefreshAfterLoad(refresh, cache, rest)
                   /\ reply' = NoReply
                   /\ UNCHANGED <<search, history>>
              ELSE IF settles
              THEN /\ SearchAfterLoad(Running, search.crit, cache, rest)
                   /\ UNCHANGED <<refresh, persisted, cacheAge>>
              ELSE /\ inflight' = rest
                   /\ reply' = NoReply
                   /\ UNCHANGED <<refresh, persisted, cacheAge, search, history>>
    /\ UNCHANGED <<config, categoryListCache, phase, startup>>

\* The response to a category-list request of the refresh or of a search
\* arrives (api.ts 127-136): a success is stored; the refresh waits for its
\* requests in a Promise.all (api.ts 159), the search for those of all the
\* items it enriches (api.ts 456-482), whose failures are caught one by one
\* (api.ts 475-478).
CatFetchDone(f) ==
    /\ BagIn(f, inflight)
    /\ f.kind = "cat"
    /\ f.owner >= 0
    /\ LET ok == f.pid \notin catDown
           rest == inflight (-) SetToBag({f})
           last == ~\E g \in BagToSet(rest) : g.owner = 0 /\ g.kind = "cat"
       IN  /\ categoryListCache' = IF ok THEN categoryListCache \cup {f.pid}
                                   ELSE categoryListCache
           /\ IF f.owner = 0
              THEN /\ refresh' = IF refresh.pc = "cats" /\ (~ok \/ last)
                                 THEN [refresh EXCEPT !.pc = "done"] ELSE refresh
                   /\ inflight' = rest
                   /\ reply' = NoReply
                   /\ UNCHANGED <<search, history>>
              ELSE IF search.pc = "enrich" /\ f.owner = Current /\ ~BagIn(f, rest)
              THEN /\ LET combo == Combos(search.projects, search.crit)[search.idx]
                      IN  SearchContinue(Running, search.crit, search.projects,
                              search.allResults
                                  \o Enrich(search.pending,
                                            ProjectData(combo.project.id, combo.project.rev),
                                            IF ok THEN CategoryData(f.pid) ELSE <<>>),
                              search.idx + 1, search.failed, rest)
                   /\ UNCHANGED refresh
              ELSE /\ inflight' = rest
                   /\ reply' = NoReply
                   /\ UNCHANGED <<refresh, search, history>>
    /\ UNCHANGED <<config, projectInfoCache, persisted, cacheAge, phase, startup>>

\* part_001 82-91 with api.ts 198-215: asyncUpdateCache up to its first
\* wait; caught says whether the caller attached a catch to its promise
asyncUpdateCache(caught) ==
    LET need == {p \in getConfiguredProjectIds : ~MapHas(projectInfoCache, p)}
        r == [refresh EXCEPT !.caught = caught]
    IN  IF need = {}
        THEN /\ RefreshAfterLoad(r, projectInfoCache, inflight)
             /\ UNCHANGED projectInfoCache
        ELSE /\ refresh' = [r EXCEPT !.pc = "info"]
             /\ inflight' = inflight (+) SetToBag({Fetch(0, "info", p) : p \in need})
             /\ UNCHANGED <<projectInfoCache, persisted, cacheAge>>

\* an initializeCache that takes a snapshot without entries for valid data
initializeCacheTrustsEmpty ==
    /\ phase = "constructing"
    /\ phase' = "ready"
    /\ startup' = "resolved"
    /\ IF "expiry" \in diskFault \/ isCacheExpired \/ "load" \in diskFault
       THEN asyncUpdateCache(TRUE)
       ELSE /\ projectInfoCache' = loadFromCache
            /\ UNCHANGED <<refresh, inflight, persisted, cacheAge>>
    /\ reply' = NoReply
    /\ UNCHANGED <<config, categoryListCache, search, history>>

\* an initializeCache without its try and catch (part_001 39, 68-75)
initializeCacheUncaught ==
    /\ phase = "constructing"
    /\ phase' = "ready"
    /\ IF "expiry" \in diskFault \/ (~isCacheExpired /\ "load" \in diskFault)
       THEN /\ startup' = "rejected"
            /\ UNCHANGED <<projectInfoCache, refresh, inflight, persisted, cacheAge>>
       ELSE /\ startup' = "resolved"
            /\ IF ~isCacheExpired /\ Len(loadFromCache) > 0
               THEN /\ projectInfoCache' = loadFromCache
                    /\ UNCHANGED <<refresh, inflight, persisted, cacheAge>>
               ELSE asyncUpdateCache(TRUE)
    /\ reply' = NoReply
    /\ UNCHANGED <<config, categoryListCache, search, history>>

\* part_001 38-76: the constructor's call of initializeCache, which runs to
\* its end without waiting
initializeCache ==
    /\ phase = "constructing"
    /\ phase' = "ready"
    /\ startup' = "resolved"
    /\ IF "expiry" \in diskFault
       THEN asyncUpdateCache(TRUE)                      \* 41 throws: 68-74
       ELSE IF isCacheExpired
       THEN asyncUpdateCache(TRUE)                      \* 41-47
       ELSE IF "load" \in diskFault
       THEN asyncUpdateCache(TRUE)                      \* 50 throws: 68-74
       ELSE IF Len(loadFromCache) > 0
       THEN /\ projectInfoCache' = loadFromCache        \* 53-59
            /\ UNCHANGED <<refresh, inflight, persisted, cacheAge>>
       ELSE asyncUpdateCache(TRUE)                      \* 60-65
    /\ reply' = NoReply
    /\ UNCHANGED <<config, categoryListCache, search, history>>

\* api.ts 24-45: the constructor of YApiService
constructor ==
    /\ phase = "new"
    /\ phase' = "constructed"
    /\ tokenMap' = ParseToken(token).tokenMap
    /\ defaultToken' = ParseToken(token).defaultToken
    /\ reply' = NoReply
    /\ UNCHANGED <<token, diskFault, infoDown, menuDown, menuFlaky, catDown,
                   projectInfoCache, categoryListCache, persisted, cacheAge, startup,
                   refresh, search, inflight, history>>

\* the message of the Error that request throws for every failure that is
\* not a response of the remote (api.ts 110)
CommunicationFailed == "communication with the YApi server failed"

\* api.ts 103-111, the catch of request: what it throws for what it caught
Rethrown(error) ==
    IF error.axios /\ error.response /= <<>>
    THEN [status |-> error.response[1].status,
          message |-> IF error.response[1].errmsg /= "" THEN error.response[1].errmsg
                      ELSE "unknown error"]
    ELSE [message |-> CommunicationFailed]

\* api.ts 82-84: the Error thrown inside the try when no token resolves
NoTokenError == [axios |-> FALSE, response |-> <<>>, message |-> "no token configured"]

\* what axios throws when it gets no response, and when the remote answers
\* with an error status
NoResponseError == [axios |-> TRUE, response |-> <<>>, message |-> "timeout"]

StatusError ==
    [axios |-> TRUE, response |-> <<[status |-> 500, errmsg |-> "remote error"]>>,
     message |-> "status 500"]

\* what the caller of request gets: the error it threw, if any, why, and
\* whether an HTTP request was issued
Requested(projectId, cause, issued, thrown) ==
    [tool |-> "request", projectId |-> projectId, cause |-> cause, issued |-> issued,
     thrown |-> thrown]

\* api.ts 75-98: a call of request for a project, up to its await: without
\* a token it throws, with one it issues the HTTP request and waits.  max
\* calls wait at a time at most.
request(projectId, max) ==
    /\ phase = "constructed"
    /\ BagCardinality(inflight) < max
    /\ IF getToken(projectId) = <<>>                                     \* 80-84
       THEN /\ reply' = Requested(projectId, "no token", FALSE, <<Rethrown(NoTokenError)>>)
            /\ UNCHANGED inflight
       ELSE /\ inflight' = inflight
                              (+) SetToBag({[owner |-> -1, kind |-> "request",
                                             pid |-> projectId]})         \* 89, 96
            /\ reply' = NoReply
    /\ UNCHANGED <<config, projectInfoCache, categoryListCache, persisted, cacheAge,
                   phase, startup, refresh, search, history>>

\* api.ts 89-111: the HTTP request of a call of request settles, and the
\* call returns the response or throws what its catch makes of the error;
\* network is what became of the HTTP request
requestSettles(f, network) ==
    /\ BagIn(f, inflight)
    /\ f.kind = "request"
    /\ inflight' = inflight (-) SetToBag({f})
    /\ reply' = CASE network = "ok" -> Requested(f.pid, "none", TRUE, <<>>)
                  [] network = "no response" ->
                         Requested(f.pid, "transport", TRUE, <<Rethrown(NoResponseError)>>)
                  [] network = "status" ->
                         Requested(f.pid, "remote", TRUE, <<Rethrown(StatusError)>>)
    /\ UNCHANGED <<config, projectInfoCache, categoryListCache, persisted, cacheAge,
                   phase, startup, refresh, search, history>>

(***************************************************************************)
(* The operations of YApiService that make one request (api.ts 118-288).   *)
(* An answer is what becomes of the HTTP request: an envelope {errcode,     *)
(* errmsg, data} of the remote, a body that is no envelope, no response at *)
(* all, or an error status; Unanswered is the request that still waits.    *)
(* An operation is written as what it has done by the time its request is  *)
(* answered, and with Unanswered as what it does up to its await.          *)
(***************************************************************************)
Envelope(errcode, errmsg, data) ==
    [kind |-> "envelope", errcode |-> errcode, errmsg |-> errmsg, data |-> data]

\* a body without errcode, errmsg and data
Malformed == [kind |-> "malformed", errcode |-> 0, errmsg |-> "", data |-> FALSE]

NoResponse == [kind |-> "no response", errcode |-> 0, errmsg |-> "", data |-> FALSE]

ErrorStatus == [kind |-> "status", errcode |-> 0, errmsg |-> "", data |-> FALSE]

Unanswered == [kind |-> "unanswered", errcode |-> 0, errmsg |-> "", data |-> FALSE]

\* the answers of the remote: success, a refusal with a message and one
\* without, and the failures of the transport
Answers ==
    {Envelope(0, "ok", TRUE), Envelope(40011, "denied", FALSE), Envelope(40011, "", FALSE),
     Malformed, NoResponse, ErrorStatus}

\* and a success that has no data, for the operations that store nothing
AnswersOrNoData == Answers \cup {Envelope(0, "ok", FALSE)}

\* api.ts 75-112: request as the operations use it; calls are the HTTP
\* requests it issued, response is response.data when it returned, waits
\* says that it is at its await (api.ts 89, 96)
send(endpoint, params, projectId, method, answer) ==
    LET call == [endpoint |-> endpoint, params |-> params, method |-> method]
    IN  IF getToken(projectId) = <<>>                                    \* 80-84
        THEN [calls |-> <<>>, thrown |-> <<Rethrown(NoTokenError)>>, response |-> <<>>,
              waits |-> FALSE]
        ELSE CASE answer.kind = "unanswered" ->
                      [calls |-> <<call>>, thrown |-> <<>>, response |-> <<>>,
                       waits |-> TRUE]
               [] answer.kind = "no response" ->
                      [calls |-> <<call>>, thrown |-> <<Rethrown(NoResponseError)>>,
                       response |-> <<>>, waits |-> FALSE]
               [] answer.kind = "status" ->
                      [calls |-> <<call>>, thrown |-> <<Rethrown(StatusError)>>,
                       response |-> <<>>, waits |-> FALSE]
               [] OTHER -> [calls |-> <<call>>, thrown |-> <<>>, response |-> <<answer>>,
                            waits |-> FALSE]

\* response.errcode !== 0: true of a body that has no errcode
Refused(response) == response.kind = "malformed" \/ response.errcode /= 0

\* response.errmsg || fallback
MessageOr(response, fallback) == IF response.errmsg /= "" THEN response.errmsg ELSE fallback

\* what a call of an operation gave: the requests it issued, the error it
\* threw or the value it returned, and the two cache maps as it left them;
\* or, with waits, the request it waits for
Outcome(calls, thrown, value, info, cats) ==
    [calls |-> calls, thrown |-> thrown, value |-> value, info |-> info, cats |-> cats,
     waits |-> FALSE]

\* an operation that does not touch the caches throws
Throws(calls, error) == Outcome(calls, <<error>>, <<>>, projectInfoCache, categoryListCache)

\* an operation that does not touch the caches returns
Returns(calls, value) == Outcome(calls, <<>>, <<value>>, projectInfoCache, categoryListCache)

\* an operation is at the await of its request
Awaits(calls) ==
    [calls |-> calls, thrown |-> <<>>, value |-> <<>>, info |-> projectInfoCache,
     cats |-> categoryListCache, waits |-> TRUE]

\* the body of /api/interface/get for the interface id
ApiData(id) == [_id |-> id, title |-> <<"L", "o", "g">>, path |-> <<"/", "a">>]

\* response.data of an envelope: undefined (<<>>) when the remote sent none
DataOf(response, data) == IF response.data THEN <<data>> ELSE <<>>

\* getApiInterface repeating a refused request
getApiInterfaceRetries(projectId, id, answer) ==
    LET sent == send("/api/interface/get", [id |-> id], projectId, "GET", answer)
    IN  IF sent.thrown /= <<>> THEN Throws(sent.calls, sent.thrown[1])
        ELSE IF sent.waits THEN Awaits(sent.calls)
        ELSE IF Refused(sent.response[1])
        THEN Throws(sent.calls \o sent.calls,
                    Error(MessageOr(sent.response[1], "failed to get the interface")))
        ELSE Outcome(sent.calls, <<>>, DataOf(sent.response[1], ApiData(id)),
                     projectInfoCache, categoryListCache)

\* api.ts 222-236
getApiInterface(projectId, id, answer) ==
    LET sent == send("/api/interface/get", [id |-> id], projectId, "GET", answer)
    IN  IF sent.thrown /= <<>> THEN Throws(sent.calls, sent.thrown[1])
        ELSE IF sent.waits THEN Awaits(sent.calls)                       \* 225
        ELSE IF Refused(sent.response[1])                                \* 227-229
        THEN Throws(sent.calls,
                    Error(MessageOr(sent.response[1], "failed to get the interface")))
        ELSE Outcome(sent.calls, <<>>, DataOf(sent.response[1], ApiData(id)),
                     projectInfoCache, categoryListCache)

\* api.ts 173-174: the entry of the project map a call of getProjectInfo
\* finds, <<>> when there is none
ProjectEntry(projectId) ==
    IF MapHas(projectInfoCache, projectId)
    THEN <<ProjectData(projectId,
                       projectInfoCache[CHOOSE i \in 1..Len(projectInfoCache) :
                                            projectInfoCache[i].id = projectId].rev)>>
    ELSE <<>>

\* api.ts 121-122: the category list a call of getCategoryList finds
CategoryEntry(projectId) ==
    IF projectId \in categoryListCache THEN <<CategoryData(projectId)>> ELSE <<>>

\* api.ts 170-193: an entry that the call found (api.ts 173) is returned
\* without a request; a fetched value is stored when the response is there
\* (api.ts 186), as revision 1, the value the remote has now
getProjectInfo(projectId, found, answer) ==
    IF found /= <<>>                                                     \* 173-175
    THEN Returns(<<>>, found[1])
    ELSE LET sent == send("/api/project/get", [id |-> projectId], projectId, "GET", answer)
         IN  IF sent.thrown /= <<>> THEN Throws(sent.calls, sent.thrown[1])
             ELSE IF sent.waits THEN Awaits(sent.calls)                  \* 179
             ELSE IF Refused(sent.response[1])                           \* 181-183
             THEN Throws(sent.calls,
                         Error(MessageOr(sent.response[1], "failed to get the project")))
             ELSE Outcome(sent.calls, <<>>, <<ProjectData(projectId, 1)>>,
                          MapSet(projectInfoCache, projectId, 1), categoryListCache)

\* api.ts 118-141
getCategoryList(projectId, found, answer) ==
    IF found /= <<>>                                                     \* 121-123
    THEN Returns(<<>>, found[1])
    ELSE LET sent == send("/api/interface/getCatMenu", [project_id |-> projectId], projectId, "GET",
                          answer)
         IN  IF sent.thrown /= <<>> THEN Throws(sent.calls, sent.thrown[1])
             ELSE IF sent.waits THEN Awaits(sent.calls)                  \* 127
             ELSE IF Refused(sent.response[1])                           \* 129-131
             THEN Throws(sent.calls,
                         Error(MessageOr(sent.response[1], "failed to get the categories")))
             ELSE Outcome(sent.calls, <<>>, <<CategoryData(projectId)>>,
                          projectInfoCache, categoryListCache \cup {projectId})

\* api.ts 274-288: response.data || []
getInterfaceMenu(projectId, answer) ==
    LET sent == send("/api/interface/list_menu", [project_id |-> projectId], projectId, "GET",
                     answer)
    IN  IF sent.thrown /= <<>> THEN Throws(sent.calls, sent.thrown[1])
        ELSE IF sent.waits THEN Awaits(sent.calls)                       \* 277
        ELSE IF Refused(sent.response[1])                                \* 279-281
        THEN Throws(sent.calls,
                    Error(MessageOr(sent.response[1], "failed to get the menu")))
        ELSE Returns(sent.calls,
                     IF sent.response[1].data THEN MenuData(projectId) ELSE <<>>)

\* saveInterface with the create endpoint for every save
saveInterfaceAlwaysAdds(params, answer, saved) ==
    LET sent == send("/api/interface/add", params, params.project_id, "POST", answer)
    IN  IF sent.thrown /= <<>> THEN Throws(sent.calls, sent.thrown[1])
        ELSE IF sent.waits THEN Awaits(sent.calls)
        ELSE IF Refused(sent.response[1])
        THEN Throws(sent.calls,
                    Error(MessageOr(sent.response[1], "failed to add the interface")))
        ELSE Returns(sent.calls,
                     [errcode |-> 0, data |-> DataOf(sent.response[1], [_id |-> saved])])

\* api.ts 242-268: the response is returned whole; saved is the _id the
\* remote puts into its data
saveInterface(params, answer, saved) ==
    LET isAdd == params.id = <<>>                                        \* 245
        endpoint == IF isAdd THEN "/api/interface/add" ELSE "/api/interface/up"
        sent == send(endpoint, params, params.project_id, "POST", answer)
    IN  IF sent.thrown /= <<>> THEN Throws(sent.calls, sent.thrown[1])
        ELSE IF sent.waits THEN Awaits(sent.calls)                       \* 252
        ELSE IF Refused(sent.response[1])                                \* 259-261
        THEN Throws(sent.calls,
                    Error(MessageOr(sent.response[1],
                                    IF isAdd THEN "failed to add the interface"
                                    ELSE "failed to update the interface")))
        ELSE Returns(sent.calls,
                     [errcode |-> 0, data |-> DataOf(sent.response[1], [_id |-> saved])])

\* the five operations
Operations ==
    {"getApiInterface", "saveInterface", "getProjectInfo", "getCategoryList",
     "getInterfaceMenu"}

\* the request of a call from outside (of an operation or of the handler of
\* a tool) that waits for its response; call is what was called, and with
\* what
Asked(kind, projectId, call) == [owner |-> -1, kind |-> kind, pid |-> projectId, call |-> call]

\* the requests of the calls from outside that wait
AskedNow == {f \in BagToSet(inflight) : f.owner = -1}

\* the number of calls from outside that wait for the network: the calls of
\* the operations and of the tools that make one request, the call of
\* yapi_get_categories, and the search
Overlap ==
    BagCardinality([f \in {g \in AskedNow : g.kind /= "list_cat"} |-> inflight[f]])
        + (IF \E g \in AskedNow : g.kind = "list_cat" THEN 1 ELSE 0)
        + (IF search.pc /= "idle" THEN 1 ELSE 0)

\* what the call of an operation finds in the cache map it reads
FoundBy(call) ==
    CASE call.tool = "getProjectInfo" -> ProjectEntry(call.projectId)
      [] call.tool = "getCategoryList" -> CategoryEntry(call.projectId)
      [] OTHER -> <<>>

\* the operation of a call, applied to what it found and to its answer
Apply(call, found, answer, saved) ==
    CASE call.tool = "getApiInterface" -> getApiInterface(call.projectId, call.id, answer)
      [] call.tool = "getProjectInfo" -> getProjectInfo(call.projectId, found, answer)
      [] call.tool = "getCategoryList" -> getCategoryList(call.projectId, found, answer)
      [] call.tool = "getInterfaceMenu" -> getInterfaceMenu(call.projectId, answer)
      [] call.tool = "saveInterface" -> saveInterface(call.params, answer, saved)

\* the kind of the request an operation makes
KindOf(tool) ==
    CASE tool = "getApiInterface" -> "get"
      [] tool = "getProjectInfo" -> "info"
      [] tool = "getCategoryList" -> "cat"
      [] tool = "getInterfaceMenu" -> "menu"
      [] tool = "saveInterface" -> "save"

\* what the caller of an operation gets when the call settles
Settled(call, cached, answer, outcome) ==
    [tool |-> call.tool, projectId |-> call.projectId, answer |-> answer,
     cached |-> cached, calls |-> outcome.calls, thrown |-> outcome.thrown,
     value |-> outcome.value]

\* A call of one of the operations from outside, up to its await: it
\* reads its cache map, and returns, throws, or issues its request and
\* waits.  max calls wait at a time at most.
Call(call, max) ==
    /\ phase = "ready"
    /\ Overlap < max
    /\ LET found == FoundBy(call)
           outcome == Apply(call, found, Unanswered, 0)
       IN  IF outcome.waits
           THEN /\ inflight' = inflight (+) SetToBag({Asked(KindOf(call.tool), call.projectId, call)})
                /\ reply' = NoReply
                /\ UNCHANGED <<projectInfoCache, categoryListCache>>
           ELSE /\ reply' = Settled(call, found /= <<>>, Unanswered, outcome)
                /\ projectInfoCache' = outcome.info
                /\ categoryListCache' = outcome.cats
                /\ UNCHANGED inflight
    /\ UNCHANGED <<config, persisted, cacheAge, phase, startup, refresh, search, history>>

\* The response to the request of a call of an operation arrives: the call
\* goes on behind its await, with the cache maps as they are now, and
\* settles.
Answered(f, answer, saved) ==
    /\ BagIn(f, inflight)
    /\ f.owner = -1
    /\ f.call.tool \in Operations
    /\ LET outcome == Apply(f.call, <<>>, answer, saved)
       IN  /\ inflight' = inflight (-) SetToBag({f})
           /\ reply' = Settled(f.call, FALSE, answer, outcome)
           /\ projectInfoCache' = outcome.info
           /\ categoryListCache' = outcome.cats
    /\ UNCHANGED <<config, persisted, cacheAge, phase, startup, refresh, search, history>>

(***************************************************************************)
(* The tool yapi_save_api (part_001 255-417) and the save of the debug     *)
(* endpoint (part_001 728-753).  The fields tag, req_params, req_query,    *)
(* req_headers and req_body_form arrive as strings; the empty string       *)
(* stands for a field that was not supplied (both are falsy).              *)
(***************************************************************************)
\* the number a digit stands for
DigitValue(c) == CHOOSE n \in 0..9 : String(n) = <<c>>

IsDigit(c) == \E n \in 0..9 : String(n) = <<c>>

\* JSON.parse on the strings the model supplies: an array of one-digit
\* numbers is parsed, every other string makes it throw a SyntaxError
JSONparse(s) ==
    LET inner == SubSeq(s, 2, Len(s) - 1)
        pieces == split(inner, ",")
        wellFormed ==
            /\ Len(s) >= 2 /\ s[1] = "[" /\ s[Len(s)] = "]"
            /\ \/ inner = <<>>
               \/ \A i \in 1..Len(pieces) : Len(pieces[i]) = 1 /\ IsDigit(pieces[i][1])
    IN  IF ~wellFormed THEN [ok |-> FALSE, value |-> <<>>]
        ELSE IF inner = <<>> THEN [ok |-> TRUE, value |-> <<>>]
        ELSE [ok |-> TRUE, value |-> [i \in 1..Len(pieces) |-> DigitValue(pieces[i][1])]]

SyntaxError == Error("Unexpected token in JSON")

\* the values a field of the parameters of a save can have
Undefined == [kind |-> "undefined", value |-> <<>>]

Parsed(value) == [kind |-> "array", value |-> value]

Raw(s) == [kind |-> "string", value |-> s]

\* the supplied string s does not parse
Fails(s) == s /= <<>> /\ ~JSONparse(s).ok

\* a handler that waits has no result yet
NoResult == [kind |-> "none", field |-> "none"]

\* the body of the try of a handler throws, returns, or waits for the
\* service
BodyThrows(calls, error) ==
    [calls |-> calls, thrown |-> <<error>>, result |-> <<>>, waits |-> FALSE]

BodyReturns(calls, result) ==
    [calls |-> calls, thrown |-> <<>>, result |-> <<result>>, waits |-> FALSE]

BodyWaits(calls) == [calls |-> calls, thrown |-> <<>>, result |-> <<>>, waits |-> TRUE]

\* the result of a save that went through: the id is response.data._id
SavedResult(response) ==
    [kind |-> "saved", field |-> "none",
     id |-> IF response.data = <<>> THEN <<>> ELSE <<response.data[1]._id>>]

\* part_001 306-404, the body of the try of the handler: what it returns or
\* throws, and the requests that were issued
SaveApiBody(args, answer, saved) ==
    IF Fails(args.tag)                                                   \* 315
    THEN BodyThrows(<<>>, SyntaxError)
    ELSE IF Fails(args.req_params)                                       \* 326-334
    THEN BodyReturns(<<>>, ErrorResult("req_params", Text(SyntaxError)))
    ELSE IF Fails(args.req_query)                                        \* 337-345
    THEN BodyReturns(<<>>, ErrorResult("req_query", Text(SyntaxError)))
    ELSE IF Fails(args.req_headers)                                      \* 347-355
    THEN BodyReturns(<<>>, ErrorResult("req_headers", Text(SyntaxError)))
    ELSE IF Fails(args.req_body_form)                                    \* 361-369
    THEN BodyReturns(<<>>, ErrorResult("req_body_form", Text(SyntaxError)))
    ELSE LET field(s) == IF s = <<>> THEN Undefined ELSE Parsed(JSONparse(s).value)
             params == [project_id |-> args.projectId, catid |-> args.catid,
                        title |-> args.title, path |-> args.path,
                        method |-> args.method, id |-> args.id,
                        tag |-> IF args.tag = <<>> THEN Parsed(<<>>)
                                ELSE Parsed(JSONparse(args.tag).value),
                        req_params |-> field(args.req_params),
                        req_query |-> field(args.req_query),
                        req_headers |-> field(args.req_headers),
                        req_body_form |-> field(args.req_body_form)]
             saving == saveInterface(params, answer, saved)              \* 399
         IN  IF saving.waits THEN BodyWaits(saving.calls)
             ELSE IF saving.thrown /= <<>> THEN BodyThrows(saving.calls, saving.thrown[1])
             ELSE IF saving.value[1].data = <<>>                         \* 400
             THEN BodyThrows(saving.calls, TypeError)
             ELSE BodyReturns(saving.calls, SavedResult(saving.value[1]))

\* yapi_save_api without the catch of its handler
SaveApiUncaught(args, answer, saved) ==
    LET body == SaveApiBody(args, answer, saved)
    IN  [path |-> "tool", calls |-> body.calls, escaped |-> body.thrown,
         waits |-> body.waits,
         result |-> IF body.waits THEN NoResult
                    ELSE IF body.thrown /= <<>> THEN ErrorResult("none", "")
                    ELSE body.result[1]]

\* part_001 305-416: the handler of the tool, its try and its catch
SaveApi(args, answer, saved) ==
    LET body == SaveApiBody(args, answer, saved)
    IN  [path |-> "tool", calls |-> body.calls, escaped |-> <<>>,
         waits |-> body.waits,
         result |-> IF body.waits THEN NoResult
                    ELSE IF body.thrown /= <<>>                          \* 410-415
                    THEN ErrorResult("save", Text(body.thrown[1]))
                    ELSE body.result[1]]

\* part_001 728-753 and 758-764: the save of the debug endpoint; a string
\* that does not parse stays in the parameters as it is
DebugSaveApi(args, answer, saved) ==
    LET field(s) == IF s = <<>> THEN Undefined
                    ELSE IF JSONparse(s).ok THEN Parsed(JSONparse(s).value)
                    ELSE Raw(s)
        saveParams == [project_id |-> args.projectId, catid |-> args.catid,
                       title |-> args.title, path |-> args.path,
                       method |-> args.method, id |-> args.id,
                       tag |-> field(args.tag),
                       req_params |-> field(args.req_params),
                       req_query |-> field(args.req_query),
                       req_headers |-> field(args.req_headers),
                       req_body_form |-> field(args.req_body_form)]
        saving == saveInterface(saveParams, answer, saved)               \* 753
    IN  [path |-> "debug", calls |-> saving.calls, escaped |-> <<>>,
         waits |-> saving.waits,
         result |-> IF saving.waits THEN NoResult
                    ELSE IF saving.thrown /= <<>>                        \* 758-764
                    THEN ErrorResult("none", Text(saving.thrown[1]))
                    ELSE SavedResult(saving.value[1])]

(***************************************************************************)
(* The other registered tools (part_001 203-252, 420-597).                 *)
(***************************************************************************)
\* part_001 212-243, the body of the try of the handler
GetApiDescBody(projectId, apiId, answer) ==
    LET got == getApiInterface(projectId, apiId, answer)                 \* 213
    IN  IF got.waits THEN BodyWaits(got.calls)
        ELSE IF got.thrown /= <<>> THEN BodyThrows(got.calls, got.thrown[1])
        ELSE IF got.value = <<>>                                         \* 214
        THEN BodyThrows(got.calls, TypeError)
        ELSE BodyReturns(got.calls, [kind |-> "described", field |-> "none",
                                     id |-> got.value[1]._id])

\* yapi_get_api_desc without the catch of its handler
GetApiDescUncaught(projectId, apiId, answer) ==
    LET body == GetApiDescBody(projectId, apiId, answer)
    IN  [path |-> "tool", calls |-> body.calls, escaped |-> body.thrown,
         waits |-> body.waits,
         result |-> IF body.waits THEN NoResult
                    ELSE IF body.thrown /= <<>> THEN ErrorResult("none", "")
                    ELSE body.result[1]]

\* part_001 211-250: the handler of yapi_get_api_desc
GetApiDesc(projectId, apiId, answer) ==
    LET body == GetApiDescBody(projectId, apiId, answer)
    IN  [path |-> "tool", calls |-> body.calls, escaped |-> <<>>,
         waits |-> body.waits,
         result |-> IF body.waits THEN NoResult
                    ELSE IF body.thrown /= <<>>                          \* 245-249
                    THEN ErrorResult("none", Text(body.thrown[1]))
                    ELSE body.result[1]]

\* part_001 640-666 and 758-765: yapi_get_api_desc on the debug endpoint; it
\* reads the fields of the interface (a TypeError when there is none) and
\* its catch sends the message of the error
DebugGetApiDesc(projectId, apiId, answer) ==
    LET got == getApiInterface(projectId, apiId, answer)                 \* 644
    IN  [path |-> "debug", calls |-> got.calls, escaped |-> <<>>,
         waits |-> got.waits,
         result |-> IF got.waits THEN NoResult
                    ELSE IF got.thrown /= <<>>                           \* 760-765
                    THEN ErrorResult("none", Text(got.thrown[1]))
                    ELSE IF got.value = <<>>                             \* 647
                    THEN ErrorResult("none", Text(TypeError))
                    ELSE [kind |-> "described", field |-> "none",
                          id |-> got.value[1]._id]]

\* the elements of a set of numbers, ascending
RECURSIVE Ascending(_)
Ascending(S) ==
    IF S = {} THEN <<>>
    ELSE LET first == CHOOSE p \in S : \A q \in S : p <= q
         IN  <<first>> \o Ascending(S \ {first})

\* part_001 694: the name shown for a project that has no entry
UnknownProject(id) == <<"u", "n", "k", "n", "o", "w", "n", "(">> \o String(id) \o <<")">>

\* part_001 687-701: yapi_list_projects on the debug endpoint lists the
\* configured project ids, the keys of the credential table in its order
\* (the ids of the model's tables ascend), each with the name of its entry
\* in the project map or, without one, as an unknown project
DebugListProjects ==
    LET projectIds == Ascending(getConfiguredProjectIds)                 \* 688
        info(id) == ProjectEntry(id)                                     \* 691
    IN  [path |-> "debug", calls |-> <<>>, escaped |-> <<>>,
         result |-> [kind |-> "projects", field |-> "none",
                     projects |->
                         [i \in 1..Len(projectIds) |->
                             [id |-> projectIds[i],
                              name |-> IF info(projectIds[i]) /= <<>>
                                          /\ info(projectIds[i])[1].name /= <<>>
                                       THEN info(projectIds[i])[1].name
                                       ELSE UnknownProject(projectIds[i])]]]]

\* part_001 481-513: the handler of yapi_list_projects
ListProjects ==
    [path |-> "tool", calls |-> <<>>, escaped |-> <<>>,
     result |-> IF Len(projectInfoCache) = 0                             \* 486-490
                THEN [kind |-> "no projects", field |-> "none", projects |-> <<>>]
                ELSE [kind |-> "projects", field |-> "none",
                      projects |->
                          [i \in 1..Len(projectInfoCache) |->
                              [id |-> projectInfoCache[i].id,
                               name |-> ProjectData(projectInfoCache[i].id,
                                                    projectInfoCache[i].rev).name]]]]

\* the handler of a call of yapi_get_api_desc or of yapi_save_api (on the
\* path of the tool or of the debug endpoint), applied to its answer
Handled(call, answer, saved) ==
    CASE call.tool = "yapi_get_api_desc" /\ call.path = "tool" ->
             GetApiDesc(call.projectId, call.apiId, answer)
      [] call.tool = "yapi_get_api_desc" /\ call.path = "debug" ->
             DebugGetApiDesc(call.projectId, call.apiId, answer)
      [] call.tool = "yapi_save_api" /\ call.path = "tool" -> SaveApi(call.args, answer, saved)
      [] call.tool = "yapi_save_api" /\ call.path = "debug" ->
             DebugSaveApi(call.args, answer, saved)

\* what the caller of a tool gets when its handler returns
Returned(call, answer, saved, handled) ==
    IF call.tool = "yapi_save_api"
    THEN [tool |-> call.tool, args |-> call.args, answer |-> answer, saved |-> saved,
          path |-> handled.path, calls |-> handled.calls, escaped |-> handled.escaped,
          result |-> handled.result]
    ELSE [tool |-> call.tool, input |-> [projectId |-> call.projectId, answer |-> answer],
          path |-> handled.path, calls |-> handled.calls, escaped |-> handled.escaped,
          result |-> handled.result]

\* A call of a tool whose handler makes one request, up to its await: the
\* handler returns at once, or the service has issued its request and the
\* handler waits.  max calls wait at a time at most.
Handle(call, kind, max) ==
    /\ phase = "ready"
    /\ Overlap < max
    /\ \E handled \in {Handled(call, Unanswered, 0)} :
           IF handled.waits
           THEN /\ inflight' = inflight (+) SetToBag({Asked(kind, call.projectId, call)})
                /\ reply' = NoReply
           ELSE /\ reply' = Returned(call, Unanswered, 0, handled)
                /\ UNCHANGED inflight
    /\ UNCHANGED <<config, projectInfoCache, categoryListCache, persisted, cacheAge,
                   phase, startup, refresh, search, history>>

\* part_001 203-252: a call of the tool yapi_get_api_desc
yapi_get_api_desc(projectId, apiId, max) ==
    Handle([path |-> "tool", projectId |-> projectId, tool |-> "yapi_get_api_desc",
            apiId |-> apiId], "get", max)

\* part_001 255-417: a call of the tool yapi_save_api
yapi_save_api(args, max) ==
    Handle([path |-> "tool", projectId |-> args.projectId, tool |-> "yapi_save_api",
            args |-> args], "save", max)

\* The response to the request of yapi_get_api_desc or of yapi_save_api
\* arrives, on the path of the tool or of the debug endpoint: the service
\* call settles and the handler returns (part_001 213-250, 399-416, 644-666,
\* 753-765); saved is the _id in the data of the answer.
HandlerAnswered(f, answer, saved) ==
    /\ BagIn(f, inflight)
    /\ f.owner = -1
    /\ f.call.tool \in {"yapi_get_api_desc", "yapi_save_api"}
    /\ inflight' = inflight (-) SetToBag({f})
    /\ \E handled \in {Handled(f.call, answer, saved)} :
           reply' = Returned(f.call, answer, saved, handled)
    /\ UNCHANGED <<config, projectInfoCache, categoryListCache, persisted, cacheAge,
                   phase, startup, refresh, search, history>>

\* part_001 478-515: a call of the tool yapi_list_projects, which reads the
\* project map and returns
yapi_list_projects ==
    /\ phase = "ready"
    /\ reply' = [tool |-> "yapi_list_projects", input |-> <<>>, path |-> ListProjects.path,
                 calls |-> ListProjects.calls, escaped |-> ListProjects.escaped,
                 result |-> ListProjects.result]
    /\ UNCHANGED <<config, projectInfoCache, categoryListCache, persisted, cacheAge,
                   phase, startup, refresh, search, inflight, history>>

\* api.ts 379: the default of maxProjects
DefaultMaxProjects == 5

\* part_001 433 and 462: limit || 20
DefaultLimit == 20

\* api.ts 294-321: the criteria searchApisByName hands to searchApis
searchApisByName(options) ==
    [projectKeyword |-> options.projectKeyword, nameKeyword |-> <<options.nameKeyword>>,
     pathKeyword |-> <<>>, tagKeyword |-> <<>>, page |-> 1, limit |-> options.limit,
     maxProjects |-> DefaultMaxProjects]

\* api.ts 327-354
searchApisByPath(options) ==
    [projectKeyword |-> options.projectKeyword, nameKeyword |-> <<>>,
     pathKeyword |-> <<options.pathKeyword>>, tagKeyword |-> <<>>, page |-> 1,
     limit |-> options.limit, maxProjects |-> DefaultMaxProjects]

\* part_001 420-446: a call of the tool yapi_search_by_name, up to the first
\* await of the search; the handler returns when the search ends
\* (SearchEnds).  searches bounds the searches of a behaviour, max the calls
\* that wait at a time.
yapi_search_by_name(args, searches, max) ==
    /\ phase = "ready"
    /\ search.pc = "idle"
    /\ Len(history) < searches
    /\ Overlap < max
    /\ searchApis([tool |-> "yapi_search_by_name", path |-> "tool", input |-> args,
                   calls |-> <<>>],
                  searchApisByName([nameKeyword |-> args.nameKeyword,
                                    projectKeyword |-> args.projectKeyword,
                                    limit |-> IF args.limit = 0 THEN DefaultLimit
                                              ELSE args.limit]))           \* 430-437
    /\ UNCHANGED <<config, projectInfoCache, categoryListCache, persisted, cacheAge,
                   phase, startup, refresh>>

\* part_001 449-475: a call of the tool yapi_search_by_path
yapi_search_by_path(args, searches, max) ==
    /\ phase = "ready"
    /\ search.pc = "idle"
    /\ Len(history) < searches
    /\ Overlap < max
    /\ searchApis([tool |-> "yapi_search_by_path", path |-> "tool", input |-> args,
                   calls |-> <<>>],
                  searchApisByPath([pathKeyword |-> args.pathKeyword,
                                    projectKeyword |-> args.projectKeyword,
                                    limit |-> IF args.limit = 0 THEN DefaultLimit
                                              ELSE args.limit]))           \* 459-466
    /\ UNCHANGED <<config, projectInfoCache, categoryListCache, persisted, cacheAge,
                   phase, startup, refresh>>

\* api.ts 636-646: the request of getCategoryApis for a category
ListCatCall(projectId, catId) ==
    [endpoint |-> "/api/interface/list_cat",
     params |-> [project_id |-> projectId, catid |-> catId, page |-> 1, limit |-> 100],
     method |-> "GET"]

\* the envelope by which the remote fails the request for a category
CategoryRefusal == Envelope(40011, "denied", FALSE)

\* api.ts 647-649: what getCategoryApis throws for a refusal of the remote
CategoryApisError ==
    Error(MessageOr(CategoryRefusal, "failed to get the interfaces of the category"))

\* part_001 544-589: what the handler of yapi_get_categories returns when
\* the requests for its categories have all been answered, or have all
\* failed for want of a token; failing are the categories whose request
\* the remote fails
Categories(projectId, failing) ==
    LET categoryList == CategoryData(projectId)
        menu == MenuData(projectId)
        tokenless == getToken(projectId) = <<>>
        fails(catId) == tokenless \/ catId \in failing
    IN  [tool |-> "yapi_get_categories", path |-> "tool", projectId |-> projectId,
         kind |-> "categories", failing |-> failing, escaped |-> <<>>,
         calls |-> IF tokenless THEN <<>>
                   ELSE [i \in 1..Len(categoryList) |->
                            ListCatCall(projectId, categoryList[i]._id)],
         categories |->
             [i \in 1..Len(categoryList) |->
                 [_id |-> categoryList[i]._id, name |-> categoryList[i].name,
                  failed |-> fails(categoryList[i]._id),
                  error |-> IF tokenless THEN Text(Rethrown(NoTokenError))   \* 577
                            ELSE IF categoryList[i]._id \in failing
                            THEN Text(CategoryApisError) ELSE "",
                  list |-> IF fails(categoryList[i]._id) THEN <<>>
                           ELSE [j \in 1..Len(menu[i].list) |-> menu[i].list[j]._id]]]]

\* part_001 519-597, a call of the tool yapi_get_categories, up to its
\* await: it reads the two cache maps and asks for the interfaces of every
\* category it found, all at once (part_001 545-548, api.ts 636-646).  The
\* model has one call of yapi_get_categories wait at a time.
yapi_get_categories(projectId, failing, max) ==
    /\ phase = "ready"
    /\ Overlap < max
    /\ ~\E g \in AskedNow : g.kind = "list_cat"
    /\ LET categoryList == IF projectId \in categoryListCache
                           THEN CategoryData(projectId) ELSE <<>>
           ids == {categoryList[i]._id : i \in 1..Len(categoryList)}
           call == [tool |-> "yapi_get_categories", path |-> "tool",
                    projectId |-> projectId, failing |-> failing \cap ids, catid |-> 0]
       IN  IF ~MapHas(projectInfoCache, projectId)                       \* 528-533
           THEN /\ reply' = [tool |-> "yapi_get_categories", path |-> "tool",
                             projectId |-> projectId, kind |-> "unknown project",
                             failing |-> {}, escaped |-> <<>>,
                             calls |-> <<>>, categories |-> <<>>]
                /\ UNCHANGED inflight
           ELSE IF categoryList = <<>>                                    \* 536-542
           THEN /\ reply' = [tool |-> "yapi_get_categories", path |-> "tool",
                             projectId |-> projectId, kind |-> "no categories",
                             failing |-> {}, escaped |-> <<>>,
                             calls |-> <<>>, categories |-> <<>>]
                /\ UNCHANGED inflight
           ELSE IF getToken(projectId) = <<>>                             \* api.ts 80-84
           THEN /\ reply' = Categories(projectId, failing)
                /\ UNCHANGED inflight
           ELSE /\ inflight' = inflight
                                 (+) SetToBag({Asked("list_cat", projectId,
                                                      [call EXCEPT !.catid = c]) :
                                                    c \in ids})
                /\ reply' = NoReply
    /\ UNCHANGED <<config, projectInfoCache, categoryListCache, persisted, cacheAge,
                   phase, startup, refresh, search, history>>

\* what the debug endpoint sends for yapi_get_categories: the status is 500
\* for the result of kind "error", 400 for "bad request", 200 otherwise
DebugSent(call, calls, result) ==
    [tool |-> call.tool, path |-> "debug", projectId |-> call.projectId,
     calls |-> calls, escaped |-> <<>>, result |-> result]

\* part_001 710-726: the result of yapi_get_categories on the debug endpoint
\* when every request was answered; projectName is what the handler read
\* before its await (part_001 707, 724)
DebugCategories(projectId, categoryList, projectName) ==
    LET menu == MenuData(projectId)
    IN  [kind |-> "categories", field |-> "none", projectName |-> projectName,
         categories |->
             [i \in 1..Len(categoryList) |->
                 [_id |-> categoryList[i]._id, name |-> categoryList[i].name,
                  list |-> [j \in 1..Len(menu[i].list) |-> menu[i].list[j]._id]]]]

\* part_001 635, 642, 669, 679, 704, 730 and 756: the debug endpoint refuses
\* a request with status 400
BadRequest(message) == [kind |-> "bad request", field |-> "none", message |-> message]

\* args?.name of the body of a request: whether the field is there
Has(args, name) == name \in DOMAIN args

\* !tool and !args?.name (part_001 634, 641, 668, 678, 703, 729): the field
\* is there and its value is not falsy; an id is falsy when it is 0, a
\* string when it is empty
Truthy(args, name) ==
    /\ Has(args, name)
    /\ args[name] /= (IF name \in {"projectId", "apiId"} THEN 0
                      ELSE IF name = "tool" THEN "" ELSE <<>>)

\* args?.limit || 20 (part_001 674, 684)
LimitOf(args) == IF Has(args, "limit") /\ args.limit /= 0 THEN args.limit ELSE DefaultLimit

\* args?.projectKeyword
ProjectKeywordOf(args) == IF Has(args, "projectKeyword") THEN args.projectKeyword ELSE <<>>

\* part_001 632-643, 668-670, 678-680, 703-705, 729-731 and 755-757: what
\* the debug endpoint refuses the body {tool, args} of a request for, ""
\* when it goes on to the case of the tool
Missing(body) ==
    IF ~Truthy(body, "tool") THEN "Missing tool parameter"               \* 634-636
    ELSE CASE body.tool = "yapi_get_api_desc" ->                         \* 641-643
                IF Truthy(body.args, "projectId") /\ Truthy(body.args, "apiId") THEN ""
                ELSE "Missing projectId or apiId"
           [] body.tool = "yapi_search_by_name" ->                       \* 668-670
                IF Truthy(body.args, "nameKeyword") THEN "" ELSE "Missing nameKeyword"
           [] body.tool = "yapi_search_by_path" ->                       \* 678-680
                IF Truthy(body.args, "pathKeyword") THEN "" ELSE "Missing pathKeyword"
           [] body.tool = "yapi_list_projects" -> ""
           [] body.tool = "yapi_get_categories" ->                       \* 703-705
                IF Truthy(body.args, "projectId") THEN "" ELSE "Missing projectId"
           [] body.tool = "yapi_save_api" ->                             \* 729-731
                IF \A name \in {"projectId", "catid", "title", "path", "method"} :
                       Truthy(body.args, name)
                THEN "" ELSE "Missing required fields for yapi_save_api"
           [] OTHER -> "Unknown tool"                                    \* 755-757

\* the request is for the case of the tool and has what the case asks for
Serves(body, tool) == Has(body, "tool") /\ body.tool = tool /\ Missing(body) = ""

\* a request POST /api/debug that the endpoint refuses
DebugRefuses(body, max) ==
    /\ phase = "ready"
    /\ Overlap < max
    /\ Missing(body) /= ""
    /\ reply' = [tool |-> IF Has(body, "tool") THEN body.tool ELSE "undefined",
                 path |-> "debug", body |-> body, calls |-> <<>>, escaped |-> <<>>,
                 result |-> BadRequest(Missing(body))]
    /\ UNCHANGED <<config, projectInfoCache, categoryListCache, persisted, cacheAge,
                   phase, startup, refresh, search, inflight, history>>

\* part_001 640-666: the case yapi_get_api_desc of the debug endpoint, up to
\* its await
debug_yapi_get_api_desc(body, max) ==
    /\ Serves(body, "yapi_get_api_desc")
    /\ Handle([path |-> "debug", projectId |-> body.args.projectId, tool |-> body.tool,
               apiId |-> body.args.apiId], "get", max)

\* part_001 667-676: the case yapi_search_by_name, up to the first await of
\* the search; the endpoint answers when the search ends (SearchEnds)
debug_yapi_search_by_name(body, searches, max) ==
    /\ Serves(body, "yapi_search_by_name")
    /\ phase = "ready"
    /\ search.pc = "idle"
    /\ Len(history) < searches
    /\ Overlap < max
    /\ searchApis([tool |-> body.tool, path |-> "debug", input |-> body.args,
                   calls |-> <<>>],
                  searchApisByName([nameKeyword |-> body.args.nameKeyword,
                                    projectKeyword |-> ProjectKeywordOf(body.args),
                                    limit |-> LimitOf(body.args)]))
    /\ UNCHANGED <<config, projectInfoCache, categoryListCache, persisted, cacheAge,
                   phase, startup, refresh>>

\* part_001 677-686: the case yapi_search_by_path
debug_yapi_search_by_path(body, searches, max) ==
    /\ Serves(body, "yapi_search_by_path")
    /\ phase = "ready"
    /\ search.pc = "idle"
    /\ Len(history) < searches
    /\ Overlap < max
    /\ searchApis([tool |-> body.tool, path |-> "debug", input |-> body.args,
                   calls |-> <<>>],
                  searchApisByPath([pathKeyword |-> body.args.pathKeyword,
                                    projectKeyword |-> ProjectKeywordOf(body.args),
                                    limit |-> LimitOf(body.args)]))
    /\ UNCHANGED <<config, projectInfoCache, categoryListCache, persisted, cacheAge,
                   phase, startup, refresh>>

\* part_001 687-701 and 759: the case yapi_list_projects, which reads the
\* credential table and the project map and answers
debug_yapi_list_projects(body, max) ==
    /\ Serves(body, "yapi_list_projects")
    /\ phase = "ready"
    /\ Overlap < max
    /\ reply' = [tool |-> body.tool, input |-> <<>>, path |-> DebugListProjects.path,
                 calls |-> DebugListProjects.calls,
                 escaped |-> DebugListProjects.escaped,
                 result |-> DebugListProjects.result]
    /\ UNCHANGED <<config, projectInfoCache, categoryListCache, persisted, cacheAge,
                   phase, startup, refresh, search, inflight, history>>

\* part_001 702-727 and 758-765, yapi_get_categories on the debug endpoint,
\* up to its await: it does not look whether the project is in the project
\* map, and asks for the interfaces of every category the category-list map
\* has for the project, all at once.  Without a category its Promise.all
\* resolves at once; without a token every getCategoryApis throws (api.ts
\* 80-84) and the catch sends the message of the first.  failing are the
\* categories whose request the remote fails; the model has one call of
\* yapi_get_categories wait at a time.
debug_yapi_get_categories(body, failing, max) ==
    /\ Serves(body, "yapi_get_categories")
    /\ phase = "ready"
    /\ Overlap < max
    /\ ~\E g \in AskedNow : g.kind = "list_cat"
    /\ LET projectId == body.args.projectId
           projInfo == ProjectEntry(projectId)                            \* 707
           cats == IF projectId \in categoryListCache                     \* 708
                   THEN CategoryData(projectId) ELSE <<>>
           ids == {cats[i]._id : i \in 1..Len(cats)}
           projectName == IF projInfo /= <<>> /\ projInfo[1].name /= <<>> \* 724
                          THEN projInfo[1].name ELSE String(projectId)
           call == [tool |-> "yapi_get_categories", path |-> "debug",
                    projectId |-> projectId, failing |-> failing \cap ids, catid |-> 0,
                    projectName |-> projectName]
       IN  IF cats = <<>>
           THEN /\ reply' = DebugSent(call, <<>>,
                                      DebugCategories(projectId, cats, projectName))
                /\ UNCHANGED inflight
           ELSE IF getToken(projectId) = <<>>
           THEN /\ reply' = DebugSent(call, <<>>,
                                      ErrorResult("none", Text(Rethrown(NoTokenError))))
                /\ UNCHANGED inflight
           ELSE /\ inflight' = inflight
                                 (+) SetToBag({Asked("list_cat", projectId,
                                                      [call EXCEPT !.catid = c]) :
                                                    c \in ids})
                /\ reply' = NoReply
    /\ UNCHANGED <<config, projectInfoCache, categoryListCache, persisted, cacheAge,
                   phase, startup, refresh, search, history>>

\* The response to a request of yapi_get_categories arrives (api.ts
\* 645-651).  The handler of the tool catches the failure of a category
\* (part_001 548-579), and with the last response its Promise.all settles
\* (part_001 582) and it returns.  The debug endpoint has no such catch
\* (part_001 710-722): the first response that fails rejects its Promise.all
\* and it sends the error at once, the other requests still waiting, whose
\* responses then come to nothing; it sends the categories when the last
\* response has arrived and none has failed.
CategoryApisDone(f) ==
    /\ BagIn(f, inflight)
    /\ f.kind = "list_cat"
    /\ LET rest == inflight (-) SetToBag({f})
           waiting == {g.call.catid : g \in {h \in BagToSet(rest) : h.kind = "list_cat"}}
           categoryList == CategoryData(f.call.projectId)
           answered == {categoryList[i]._id : i \in 1..Len(categoryList)}
                           \ (waiting \cup {f.call.catid})
           calls == [i \in 1..Len(categoryList) |->
                        ListCatCall(f.call.projectId, categoryList[i]._id)]
       IN  /\ inflight' = rest
           /\ reply' =
                IF f.call.path = "tool"
                THEN IF waiting /= {} THEN NoReply
                     ELSE Categories(f.call.projectId, f.call.failing)
                ELSE IF answered \cap f.call.failing /= {} THEN NoReply
                ELSE IF f.call.catid \in f.call.failing                   \* 760-765
                THEN DebugSent(f.call, calls, ErrorResult("none", Text(CategoryApisError)))
                ELSE IF waiting /= {} THEN NoReply
                ELSE DebugSent(f.call, calls,                             \* 723-726, 759
                               DebugCategories(f.call.projectId, categoryList,
                                               f.call.projectName))
    /\ UNCHANGED <<config, projectInfoCache, categoryListCache, persisted, cacheAge,
                   phase, startup, refresh, search, history>>

\* part_001 728-754: the case yapi_save_api, up to its await
debug_yapi_save_api(body, max) ==
    /\ Serves(body, "yapi_save_api")
    /\ Handle([path |-> "debug", projectId |-> body.args.projectId, tool |-> body.tool,
               args |-> body.args], "save", max)

\* part_001 630-767: a request POST /api/debug with the body {tool, args},
\* up to the await of the case of its tool.  failing are the categories
\* whose request the remote fails, searches bounds the searches of a
\* behaviour, max the calls that wait at a time.
api_debug(body, failing, searches, max) ==
    \/ DebugRefuses(body, max)
    \/ debug_yapi_get_api_desc(body, max)
    \/ debug_yapi_search_by_name(body, searches, max)
    \/ debug_yapi_search_by_path(body, searches, max)
    \/ debug_yapi_list_projects(body, max)
    \/ debug_yapi_get_categories(body, failing, max)
    \/ debug_yapi_save_api(body, max)

(***************************************************************************)
(* The inputs.                                                             *)
(***************************************************************************)
SeqsUpTo(K, n) == UNION {[1..m -> K] : m \in 0..n}

NameKeys == {<<"l", "o">>, <<"O", "G">>}

PathKeys == {<<"/", "A">>}

TagKeys == {<<"V">>}

\* the criteria of the searches that are explored in full
SearchCriteria ==
    [projectKeyword : {<<>>, <<" ", "S", "H">>, <<"3">>},
     nameKeyword : SeqsUpTo(NameKeys, MaxKeywords),
     pathKeyword : SeqsUpTo(PathKeys, 1),
     tagKeyword : SeqsUpTo(TagKeys, 1),
     page : {1},
     limit : 0..MaxLimit,
     maxProjects : {1, DefaultMaxProjects}]

\* the criteria of the searches that run beside a start-up and a refresh
LifecycleCriteria ==
    {c \in SearchCriteria :
        /\ c.projectKeyword = <<>> /\ c.nameKeyword = << <<"l", "o">> >>
        /\ c.pathKeyword = <<>> /\ c.tagKeyword = <<>>
        /\ c.limit = MaxLimit /\ c.maxProjects = DefaultMaxProjects}

NoRefresh == [pc |-> "none", caught |-> FALSE]

\* the credential string (as "1:t,2:t,d") of a table and a default token, its
\* entries in the order of the project ids
RECURSIVE TokenStringOf(_, _)
TokenStringOf(table, default) ==
    IF DOMAIN table = {} THEN default
    ELSE LET first == CHOOSE p \in DOMAIN table : \A q \in DOMAIN table : p <= q
             rest == [q \in DOMAIN table \ {first} |-> table[q]]
         IN  String(first) \o <<":">> \o table[first]
                 \o (IF DOMAIN rest = {} /\ default = <<>> THEN <<>>
                     ELSE <<",">> \o TokenStringOf(rest, default))

\* Before the constructor runs initializeCache: a credential table over
\* the projects 1 and 2, and the disk as a previous run left it.
Init ==
    /\ tokenMap \in {[p \in S |-> <<"t">>] : S \in SUBSET {1, 2}}
    /\ defaultToken \in {<<>>, <<"d">>}
    /\ token = TokenStringOf(tokenMap, defaultToken)
    /\ reply = NoReply
    /\ projectInfoCache = <<>>
    /\ categoryListCache = {}
    /\ persisted \in UNION {MapsOver(S, 0) : S \in {{}, {1}, {1, 2}, {3}}}
    /\ cacheAge \in {-1, CacheTTL, CacheTTL + 1}
    /\ (cacheAge = -1) => (persisted = <<>>)
    /\ diskFault \in {{}, {"expiry"}, {"load"}, {"save"}, {"expiry", "save"}, {"load", "save"}}
    /\ infoDown \in SUBSET {1, 2}
    /\ menuDown = {}
    /\ menuFlaky = {}
    /\ catDown \in SUBSET {2}
    /\ phase = "constructing"
    /\ startup = "pending"
    /\ refresh = NoRefresh
    /\ search = Idle
    /\ inflight = EmptyBag
    /\ history = <<>>

Next ==
    \/ initializeCache
    \/ \E f \in BagToSet(inflight) : InfoFetchDone(f)
    \/ \E f \in BagToSet(inflight) : CatFetchDone(f)
    \/ \E f \in BagToSet(inflight), ok \in BOOLEAN : MenuFetchDone(f, ok)
    \/ \E crit \in LifecycleCriteria : SearchBegin(crit, MaxSearches)

Spec == Init /\ [][Next]_vars

\* After a warm start (part_001 50-59): both credentialed projects, and
\* perhaps a project of an earlier configuration, came from the snapshot.
InitSearch ==
    /\ tokenMap = [p \in {1, 2} |-> <<"t">>]
    /\ defaultToken \in {<<>>, <<"d">>}
    /\ projectInfoCache \in MapsOver({1, 2}, 0)
           \cup {<<[id |-> 3, rev |-> 0], [id |-> 2, rev |-> 0], [id |-> 1, rev |-> 0]>>}
    /\ (defaultToken = <<"d">>) => MapHas(projectInfoCache, 3)
    /\ token = TokenStringOf(tokenMap, defaultToken)
    /\ reply = NoReply
    /\ categoryListCache = {}
    /\ persisted = projectInfoCache
    /\ cacheAge = CacheTTL
    /\ diskFault = {}
    /\ infoDown = {}
    /\ menuDown \in SUBSET {2}
    /\ menuFlaky \in SUBSET {1}
    /\ catDown \in SUBSET {1}
    /\ phase = "ready"
    /\ startup = "resolved"
    /\ refresh = NoRefresh
    /\ search = Idle
    /\ inflight = EmptyBag
    /\ history = <<>>

NextSearch ==
    \/ \E f \in BagToSet(inflight) : CatFetchDone(f)
    \/ \E f \in BagToSet(inflight), ok \in BOOLEAN : MenuFetchDone(f, ok)
    \/ \E crit \in SearchCriteria : SearchBegin(crit, 1)

SpecSearch == InitSearch /\ [][NextSearch]_vars

\* the criteria of the searches that are compared page by page
PageCriteria ==
    [projectKeyword : {<<>>},
     nameKeyword : {<< <<"l", "o">> >>, << <<"l", "o">>, <<"O", "G">> >>},
     pathKeyword : {<<>>},
     tagKeyword : {<<>>},
     page : 1..MaxPage,
     limit : {1, MaxLimit},
     maxProjects : {DefaultMaxProjects}]

\* Two searches one after the other on a server after a warm start.
NextPages ==
    \/ \E f \in BagToSet(inflight) : CatFetchDone(f)
    \/ \E f \in BagToSet(inflight), ok \in BOOLEAN : MenuFetchDone(f, ok)
    \/ \E crit \in PageCriteria : SearchBegin(crit, 2)

SpecPages == InitSearch /\ [][NextPages]_vars

\* the categories whose interface request the remote may fail
FailingCategories == {11, 21}

\* the sets of categories of project p whose request the remote may fail
Failing(p) == SUBSET {c \in FailingCategories : \E i \in 1..Len(MenuData(p)) :
                                                  MenuData(p)[i]._id = c}

\* and those of the request body names, if it names one
FailingFor(body) ==
    IF "tool" \in DOMAIN body /\ body.tool = "yapi_get_categories"
           /\ "projectId" \in DOMAIN body.args
    THEN Failing(body.args.projectId) ELSE {{}}

\* The server with its start-up and refresh, and the tool that reads the
\* category lists.
NextCategories ==
    \/ initializeCache
    \/ \E f \in BagToSet(inflight) : InfoFetchDone(f)
    \/ \E f \in BagToSet(inflight) : CatFetchDone(f)
    \/ \E p \in ProjectIds : \E failing \in Failing(p) :
           yapi_get_categories(p, failing, 1)
    \/ \E body \in [tool : {"yapi_get_categories"}, args : [projectId : ProjectIds]] :
           \E failing \in FailingFor(body) : debug_yapi_get_categories(body, failing, 1)
    \/ \E f \in BagToSet(inflight) : CategoryApisDone(f)

SpecCategories == Init /\ [][NextCategories]_vars

\* the entries credential strings are made of: a token for a project, a
\* second token for the same project, bare tokens, entries without an id
\* or without a token, a token with a colon in it, the empty entry, and an
\* entry with blanks around it
CredentialEntries ==
    { <<"1", ":", "a">>, <<"2", ":", "b">>, <<"1", ":", "b">>, <<"x">>, <<"y">>,
      <<"1", ":">>, <<":", "a">>, <<"1", ":", "a", ":", "b">>, <<>>,
      <<" ", "2", ":", "b", " ">> }

\* "10:abc,20:def,xyz"
ScenarioToken ==
    <<"1", "0", ":", "a", "b", "c", ",", "2", "0", ":", "d", "e", "f", ",", "x", "y", "z">>

\* the entries from the i-th on, with commas between them
RECURSIVE JoinFrom(_, _)
JoinFrom(entries, i) ==
    IF i > Len(entries) THEN <<>>
    ELSE IF i = Len(entries) THEN entries[i]
    ELSE entries[i] \o <<",">> \o JoinFrom(entries, i + 1)

CredentialStrings ==
    {JoinFrom(entries, 1) : entries \in SeqsUpTo(CredentialEntries, MaxEntries)}
        \cup {ScenarioToken}

\* the projects request is called for
RequestIds == {<<"1">>, <<"9">>}

\* Before the constructor of YApiService has run.
InitCredentials ==
    /\ token \in CredentialStrings
    /\ tokenMap = <<>>
    /\ defaultToken = <<>>
    /\ reply = NoReply
    /\ projectInfoCache = <<>>
    /\ categoryListCache = {}
    /\ persisted = <<>>
    /\ cacheAge = -1
    /\ diskFault = {}
    /\ infoDown = {}
    /\ menuDown = {}
    /\ menuFlaky = {}
    /\ catDown = {}
    /\ phase = "new"
    /\ startup = "pending"
    /\ refresh = NoRefresh
    /\ search = Idle
    /\ inflight = EmptyBag
    /\ history = <<>>

NextCredentials ==
    \/ constructor
    \/ \E projectId \in RequestIds : request(projectId, MaxOverlap)
    \/ \E f \in BagToSet(inflight), network \in {"ok", "no response", "status"} :
           requestSettles(f, network)

SpecCredentials == InitCredentials /\ [][NextCredentials]_vars

\* the strings a JSON-encoded field is supplied as: none, "[7]" and "["
JsonInputs == {<<>>, <<"[", "7", "]">>, <<"[">>}

\* the JSON-encoded fields of a save
JsonFields == {"tag", "req_params", "req_query", "req_headers", "req_body_form"}

\* the arguments of a save for project p: the category, title, path and
\* method both entry paths ask for (part_001 260-264 and 729), with or
\* without the id of an interface, and the JSON-encoded fields
SaveArgsFor(p) ==
    {a \in [projectId : {p}, catid : {<<"1", "1">>}, title : {<<"n">>},
            path : {<<"/", "a">>}, method : {<<"G", "E", "T">>},
            id : {<<>>, <<"4", "2">>}, tag : JsonInputs,
            req_params : JsonInputs, req_query : JsonInputs, req_headers : JsonInputs,
            req_body_form : JsonInputs] :
        Cardinality({f \in JsonFields : a[f] /= <<>>}) <= MaxSupplied}

\* the _id the remote may put into the data of its answer
SavedIds(answer) == IF answer = Envelope(0, "ok", TRUE) THEN {7, 42} ELSE {7}

\* the answers a save is explored with
SaveAnswers ==
    {Envelope(0, "ok", TRUE), Envelope(0, "ok", FALSE), Envelope(40011, "denied", FALSE),
     NoResponse}

\* the interface get_api_desc and getApiInterface are called for
ApiId == 66

\* A running server whose cache holds some of the projects.
InitTools ==
    /\ tokenMap = [p \in {1, 2} |-> <<"t">>]
    /\ defaultToken \in {<<>>, <<"d">>}
    /\ token = TokenStringOf(tokenMap, defaultToken)
    /\ reply = NoReply
    /\ projectInfoCache \in {<<>>, <<[id |-> 1, rev |-> 0]>>}
    /\ categoryListCache \in {{}, {1}}
    /\ persisted = projectInfoCache
    /\ cacheAge = CacheTTL
    /\ diskFault = {}
    /\ infoDown \in SUBSET ({2} \ MapKeys(projectInfoCache))
    /\ menuDown = {}
    /\ menuFlaky = {}
    /\ catDown = {}
    /\ phase = "ready"
    /\ startup = "resolved"
    /\ refresh = NoRefresh
    /\ search = Idle
    /\ inflight = EmptyBag
    /\ history = <<>>

\* the projects the tools and the operations are called for: project 1 has
\* a token, project 3 has one when there is a default token
CalledFor == {1, 3}

\* the calls of the five operations
OperationCalls ==
    {[tool |-> "getApiInterface", projectId |-> p, id |-> ApiId] : p \in CalledFor}
        \cup {[tool |-> "getProjectInfo", projectId |-> p] : p \in {1, 2}}
        \cup {[tool |-> "getCategoryList", projectId |-> p] : p \in CalledFor}
        \cup {[tool |-> "getInterfaceMenu", projectId |-> p] : p \in CalledFor}
        \cup {[tool |-> "saveInterface", projectId |-> p,
               params |-> [project_id |-> p, id |-> id]] :
                  p \in CalledFor, id \in {<<>>, <<"4", "2">>}}

\* the answers the remote can give /api/project/get for project p
InfoAnswers(p) == IF p \in infoDown THEN Answers \ {Envelope(0, "ok", TRUE)} ELSE Answers

\* the answers the remote can give the request f of an operation
AnswersTo(f) ==
    IF f.kind = "info" THEN InfoAnswers(f.pid)
    ELSE IF f.kind = "cat" THEN Answers
    ELSE AnswersOrNoData

\* the _id the remote puts into the data of its answer to a save
SavedId == 7

\* a body of a request to the debug endpoint that names none of the fields
\* the endpoint reads
NoArgs == CHOOSE a \in [verbose : {TRUE}] : TRUE

\* The five operations called from outside, their calls overlapping, and
\* the list of the projects, of the tool and of the debug endpoint.
NextCalls ==
    \/ \E call \in OperationCalls : Call(call, MaxOverlap)
    \/ \E f \in BagToSet(inflight) : \E a \in AnswersTo(f) : Answered(f, a, SavedId)
    \/ yapi_list_projects
    \/ \E body \in [tool : {"yapi_list_projects"}, args : {NoArgs}] :
           debug_yapi_list_projects(body, MaxOverlap)

SpecCalls == InitTools /\ [][NextCalls]_vars

\* the saves the tools are explored with beside each other
FewSaveArgs ==
    {a \in SaveArgsFor(1) \cup SaveArgsFor(3) :
        /\ a.id = <<>>
        /\ a.tag \in {<<>>, <<"[">>} /\ a.req_params \in {<<>>, <<"[">>}
        /\ a.req_query = <<>> /\ a.req_headers = <<>> /\ a.req_body_form = <<>>}

\* what yapi_search_by_name and yapi_search_by_path are called with: a
\* keyword that matches and one that does not, no limit (0) and a limit
NameSearches ==
    [nameKeyword : {<<"l", "o">>, <<"z", "z">>}, projectKeyword : {<<>>}, limit : {0, 1}]

PathSearches == [pathKeyword : {<<"/", "A">>}, projectKeyword : {<<>>}, limit : {0, 1}]

\* the requests to the debug endpoint: without a tool, with the empty
\* string for it, for a tool it does not know, and for each of its tools with and without the arguments it
\* asks for; a save with all it asks for, with the project alone, and with
\* an empty title
DebugBodies ==
    [args : {NoArgs}]
        \cup [tool : {"", "yapi_delete_api", "yapi_list_projects"}, args : {NoArgs}]
        \cup [tool : {"yapi_get_api_desc"},
              args : [projectId : {1}, apiId : {ApiId}] \cup [projectId : {1}]]
        \cup [tool : {"yapi_search_by_name"},
              args : [nameKeyword : {<<"l", "o">>, <<>>}, limit : {1}]]
        \cup [tool : {"yapi_search_by_path"},
              args : [pathKeyword : {<<"/", "A">>}, projectKeyword : {<<>>}]
                         \cup {NoArgs}]
        \cup [tool : {"yapi_get_categories"}, args : [projectId : ProjectIds] \cup {NoArgs}]
        \cup [tool : {"yapi_save_api"},
              args : {a \in FewSaveArgs : a.projectId = 1 /\ a.tag = <<>>
                                              /\ a.req_params = <<"[">>}
                     \cup {NoArgs}
                     \cup [projectId : {1}]
                     \cup [projectId : {1}, catid : {<<"1", "1">>}, title : {<<>>},
                           path : {<<"/", "a">>}, method : {<<"G", "E", "T">>}]]

\* The registered tools and the debug endpoint, their calls overlapping: one
\* search at most, a request to the debug endpoint while no call waits, and
\* the responses to the requests of the handlers and of the search.
NextTools ==
    \/ \E p \in CalledFor : yapi_get_api_desc(p, ApiId, MaxOverlap)
    \/ \E args \in FewSaveArgs : yapi_save_api(args, MaxOverlap)
    \/ \E body \in DebugBodies : \E failing \in FailingFor(body) :
           api_debug(body, failing, 1, 1)
    \/ \E f \in BagToSet(inflight), a \in AnswersOrNoData : HandlerAnswered(f, a, SavedId)
    \/ \E args \in NameSearches : yapi_search_by_name(args, 1, MaxOverlap)
    \/ \E args \in PathSearches : yapi_search_by_path(args, 1, MaxOverlap)
    \/ \E f \in BagToSet(inflight) : InfoFetchDone(f)
    \/ \E f \in BagToSet(inflight) : CatFetchDone(f)
    \/ \E f \in BagToSet(inflight), ok \in BOOLEAN : MenuFetchDone(f, ok)
    \/ yapi_list_projects
    \/ \E p \in ProjectIds : \E failing \in Failing(p) :
           yapi_get_categories(p, failing, MaxOverlap)
    \/ \E f \in BagToSet(inflight) : CategoryApisDone(f)

SpecTools == InitTools /\ [][NextTools]_vars

\* A running server, and saves of an interface of project 3, which has a
\* token when there is a default token, one at a time.
InitSave ==
    /\ InitTools
    /\ projectInfoCache = <<>>
    /\ categoryListCache = {}
    /\ infoDown = {}

NextSave ==
    \/ \E args \in SaveArgsFor(3) : yapi_save_api(args, 1)
    \/ \E body \in [tool : {"yapi_save_api"}, args : SaveArgsFor(3)] :
           debug_yapi_save_api(body, 1)
    \/ \E f \in BagToSet(inflight), a \in SaveAnswers : \E saved \in SavedIds(a) :
           HandlerAnswered(f, a, saved)

SpecSave == InitSave /\ [][NextSave]_vars

(***************************************************************************)
(* Helpers of the properties.                                              *)
(***************************************************************************)
Ids(s) == {s[i]._id : i \in 1..Len(s)}

\* the finished searches
Done == {history[i] : i \in 1..Len(history)}

\* the places of the first occurrence of each id of s
FirstPlaces(s) == {k \in 1..Len(s) : \A m \in 1..(k - 1) : s[m]._id /= s[k]._id}

\* s is strictly descending by _id
Descending(s) == \A i, j \in 1..Len(s) : i < j => s[i]._id > s[j]._id

\* the ids the fetches of h that succeeded match, by the remote's data
MatchedIds(h) ==
    LET combos == Combos(h.projects, h.crit)
    IN  UNION {Ids(FilterMenu(MenuData(combos[k].project.id), Query(combos[k]))) :
                  k \in (1..Len(combos)) \ h.failed}

(***************************************************************************)
(* C1.  The list a search returns is ordered by interface id, strictly     *)
(* descending over the whole list, also when its results come from more    *)
(* than one project or keyword combination.                                *)
(* The code sorts each fetch's results (api.ts 604) and concatenates them  *)
(* (api.ts 485); nothing sorts the concatenation.                          *)
(***************************************************************************)
C1_ListDescending == \A h \in Done : Descending(h.result.list)

(***************************************************************************)
(* C2.  An interface id that two fetches of one search produce appears     *)
(* exactly once in the final list, and the occurrence kept is the first in *)
(* concatenation order.                                                    *)
(* As stated it fails when the truncation to limit cuts the id off.        *)
(***************************************************************************)
C2_ExactlyOnceInList ==
    \A h \in Done :
        \A id \in {h.allResults[k]._id : k \in (1..Len(h.allResults)) \ FirstPlaces(h.allResults)} :
            (h.crit.limit > 0) =>
                Cardinality({i \in 1..Len(h.result.list) : h.result.list[i]._id = id}) = 1

\* C2 as amended: no id appears twice in the list; every entry of the list
\* is the first occurrence of its id in the concatenation; and an id of the
\* concatenation is missing from the list only when the list was truncated.
C2_DedupFirstOccurrence ==
    \A h \in Done :
        LET list == h.result.list
            all == h.allResults
        IN  /\ \A i, j \in 1..Len(list) : i /= j => list[i]._id /= list[j]._id
            /\ \A i \in 1..Len(list) :
                   \E k \in FirstPlaces(all) : all[k]._id = list[i]._id /\ all[k] = list[i]
            /\ (h.result.total <= h.crit.limit) => (Ids(list) = Ids(all))
            /\ h.result.total = Cardinality(Ids(all))

\* a search whose concatenation holds an id twice, from two projects with
\* different records, and whose list holds it
C2_Witness ==
    \E h \in Done : \E i, j \in 1..Len(h.allResults) :
        /\ i < j
        /\ h.allResults[i]._id = h.allResults[j]._id
        /\ h.allResults[i] /= h.allResults[j]
        /\ h.allResults[i]._id \in Ids(h.result.list)

(***************************************************************************)
(* C3.  total is the number of distinct interface ids among all matching   *)
(* results before truncation, and list is the first limit entries of the   *)
(* deduplicated sequence: len(list) = min(limit, total), total >= len(list)*)
(***************************************************************************)
C3_TotalAndPage ==
    \A h \in Done :
        LET all == h.allResults
            list == h.result.list
            n == Min(h.crit.limit, Cardinality(Ids(all)))
        IN  /\ h.result.total = Cardinality(Ids(all))
            /\ Ids(all) = MatchedIds(h)
            /\ Len(list) = n
            /\ h.result.total >= Len(list)
            \* list[i] is the i-th first occurrence of the concatenation
            /\ \A i \in 1..Len(list) :
                   \E k \in FirstPlaces(all) :
                       /\ all[k] = list[i]
                       /\ Cardinality({m \in FirstPlaces(all) : m <= k}) = i

\* a search that found more distinct ids than its limit, and one that a
\* positive limit did not cut
C3_Witness ==
    /\ \E h \in Done : h.result.total > h.crit.limit /\ h.crit.limit > 0
                       /\ Len(h.allResults) > h.result.total
                       /\ Len(h.result.list) = h.crit.limit

(***************************************************************************)
(* C5.  If the menu fetch of one candidate project fails, the search still *)
(* completes without an error and returns the matching results of every    *)
(* other candidate project; total counts only the results of the fetches   *)
(* that succeeded.                                                         *)
(***************************************************************************)
C5_MenuFailureIsolated ==
    \A h \in Done :
        (h.failed /= {}) =>
            /\ ~h.threw
            /\ h.result.total = Cardinality(MatchedIds(h))
            /\ (h.result.total <= h.crit.limit) => (Ids(h.result.list) = MatchedIds(h))
            /\ Ids(h.result.list) \subseteq MatchedIds(h)

\* a search with two candidates of which one's every menu fetch failed and
\* the other's results came back
C5_Witness ==
    \E h \in Done :
        LET combos == Combos(h.projects, h.crit)
        IN  /\ Len(h.projects) >= 2
            /\ \E p \in MapKeys(h.projects) :
                   /\ p \in menuDown
                   /\ \A k \in 1..Len(combos) : combos[k].project.id = p => k \in h.failed
            /\ h.result.total > 0
            /\ h.result.list /= <<>>

(***************************************************************************)
(* C4.  Two searches with identical criteria and an unchanged remote       *)
(* return identical {total, list}, in every reachable cache state, also    *)
(* when the first starts with an empty or partly filled project map and    *)
(* one credentialed project's info fetch fails on both calls.              *)
(* The remote of a behaviour of Spec never changes: a project of infoDown  *)
(* fails every info fetch, and every other request gets the same answer    *)
(* each time.  The first failure ends the wait of the search (api.ts 210), *)
(* and the entries that arrive later change what the next search scans.    *)
(***************************************************************************)
C4_SearchIdempotent ==
    \A i, j \in 1..Len(history) :
        (history[i].crit = history[j].crit) => (history[i].result = history[j].result)

(***************************************************************************)
(* C6.  In a refresh the project-info phase has fully completed (every     *)
(* info fetch has succeeded and been stored, or failed) before the         *)
(* snapshot is persisted and before the first category-list fetch is       *)
(* issued.                                                                 *)
(* refresh.pc is "cats" or "done" once saveToCache has run (part_001 91)   *)
(* and loadAllCategoryLists has issued its requests (part_001 94).         *)
(***************************************************************************)
C6_InfoPhaseCompletesFirst ==
    (refresh.pc \in {"cats", "done"}) =>
        ~\E f \in BagToSet(inflight) : f.owner = 0 /\ f.kind = "info"

(***************************************************************************)
(* C7.  A refresh is best-effort per project: when the info fetch of one   *)
(* credentialed project fails, every other credentialed project whose      *)
(* fetch succeeds is stored in the project map, is in the snapshot that    *)
(* refresh persisted, and has its category list fetched and stored by that *)
(* refresh.                                                                *)
(* Stated of a refresh that has ended with all its responses in, on a disk *)
(* that works and a remote whose category lists all answer.                *)
(***************************************************************************)
C7_RefreshBestEffort ==
    (/\ refresh.pc = "done"
     /\ ~\E f \in BagToSet(inflight) : f.owner = 0
     /\ diskFault = {} /\ catDown = {}
     /\ infoDown \cap getConfiguredProjectIds /= {})
    => \A p \in getConfiguredProjectIds \ infoDown :
           /\ MapHas(projectInfoCache, p)
           /\ MapHas(persisted, p)
           /\ p \in categoryListCache

(***************************************************************************)
(* C8.  In every reachable state the key sets of the project-info map and  *)
(* of the category-list map are subsets of the project ids of the          *)
(* credential table.                                                       *)
(* initializeCache stores every entry of the snapshot (part_001 55-57),    *)
(* whatever the credential table of this run is.                           *)
(***************************************************************************)
C8_CacheKeysCredentialed ==
    /\ MapKeys(projectInfoCache) \subseteq getConfiguredProjectIds
    /\ categoryListCache \subseteq getConfiguredProjectIds

(***************************************************************************)
(* C9.  Start-up policy: if the cache is expired a refresh is started and  *)
(* construction does not wait for it; if it is not expired and the         *)
(* snapshot is not empty, the snapshot's entries are loaded into the       *)
(* project map and no refresh is started; if it is not expired and the     *)
(* snapshot is empty, a refresh is started.                                *)
(* Stated of the step of initializeCache on a disk that works: a started   *)
(* refresh has left "none", and with credentialed projects it is still     *)
(* waiting for their responses when construction ends.                     *)
(***************************************************************************)
C9_StartupPolicy ==
    [][(phase = "constructing" /\ phase' = "ready" /\ diskFault \subseteq {"save"}) =>
          LET started == /\ refresh'.pc /= "none"
                         /\ projectInfoCache' = <<>>
                         /\ (getConfiguredProjectIds /= {}) =>
                                /\ refresh'.pc = "info"
                                /\ inflight' = SetToBag({Fetch(0, "info", p) :
                                                             p \in getConfiguredProjectIds})
          IN  /\ isCacheExpired => started
              /\ (~isCacheExpired /\ persisted /= <<>>) =>
                     /\ projectInfoCache' = persisted
                     /\ refresh'.pc = "none"
                     /\ inflight' = EmptyBag
              /\ (~isCacheExpired /\ persisted = <<>>) => started]_vars

\* after construction from an expired cache the refresh waits for its responses
C9_Witness ==
    /\ phase = "ready"
    /\ isCacheExpired
    /\ persisted /= <<>>
    /\ refresh.pc = "info"
    /\ inflight /= EmptyBag

(***************************************************************************)
(* C10.  Start-up never fails because of the cache: an error of the expiry *)
(* check or of the load is caught and a refresh is attempted, a failure of *)
(* that refresh is caught too; nothing propagates out of construction or   *)
(* becomes an unhandled rejection.                                         *)
(***************************************************************************)
C10_StartupNeverFails ==
    /\ startup /= "rejected"
    /\ (phase = "ready") =>
           /\ startup = "resolved"
           /\ (diskFault \cap {"expiry", "load"} /= {}) => (refresh.pc /= "none")
    /\ (refresh.pc = "failed") => refresh.caught

\* the expiry check threw, the refresh was started and failed, and was caught
C10_Witness ==
    /\ phase = "ready"
    /\ "expiry" \in diskFault
    /\ refresh.pc = "failed"
    /\ refresh.caught

(***************************************************************************)
(* C11.  The candidate projects of a search are the cached projects whose  *)
(* name, description or id contains the project filter, whatever the case  *)
(* of the letters (all cached projects when there is no filter), cut to    *)
(* the first maxProjects in the iteration order of the project map; with   *)
(* no candidate the search returns {total: 0, list: []} and issues no menu *)
(* fetch.                                                                  *)
(* The filter is the projectKeyword without the white space around it, and *)
(* a blank one is no filter (api.ts 400-401).  The project map of a        *)
(* behaviour of SpecSearch does not change.                                *)
(***************************************************************************)
\* k occurs in s, letters compared without their case
ContainsCI(s, k) ==
    \E i \in 1..(Len(s) - Len(k) + 1) :
        toLowerCase(SubSeq(s, i, i + Len(k) - 1)) = toLowerCase(k)

\* the places of the project map that the filter lets through
FilterPlaces(cache, projectKeyword) ==
    LET f == trim(projectKeyword)
    IN  {i \in 1..Len(cache) :
            LET project == ProjectData(cache[i].id, cache[i].rev)
            IN  \/ f = <<>>
                \/ ContainsCI(project.name, f)
                \/ ContainsCI(project.desc, f)
                \/ ContainsCI(String(project._id), f)}

C11_CandidateProjects ==
    /\ \A h \in Done :
           LET K == FilterPlaces(projectInfoCache, h.crit.projectKeyword)
               n == Min(h.crit.maxProjects, Cardinality(K))
           IN  /\ Len(h.projects) = n
               /\ \A i \in 1..n :
                      \E k \in K : /\ h.projects[i] = projectInfoCache[k]
                                   /\ Cardinality({m \in K : m <= k}) = i
               /\ (n = 0) => /\ h.result = [total |-> 0, list |-> <<>>]
                             /\ h.allResults = <<>>
                             /\ h.failed = {}
    /\ (search.pc /= "idle") => (search.projects /= <<>>)
    /\ \A f \in BagToSet(inflight) :
           (f.kind = "menu") => (search.pc = "menu" /\ MapHas(search.projects, f.pid))

\* a search whose filter, given with a blank before it and in capitals, let
\* two projects through, one by its name and one by its description, of
\* which maxProjects kept the first
C11_Witness ==
    \E h \in Done :
        /\ h.crit.projectKeyword = <<" ", "S", "H">>
        /\ Cardinality(FilterPlaces(projectInfoCache, h.crit.projectKeyword)) = 2
        /\ h.crit.maxProjects = 1
        /\ Len(h.projects) = 1
        /\ h.result.total > 0

(***************************************************************************)
(* C12.  An interface of a candidate project is among the deduplicated     *)
(* results if and only if there is a combination (n, p, t) of a name       *)
(* keyword, a path keyword and a tag keyword (the empty keyword where the  *)
(* class has none) such that n is empty or occurs in its title, p is empty *)
(* or occurs in its path, and t is empty or occurs in one of its tags,     *)
(* letters compared without their case; interfaces of projects that are    *)
(* not candidates never appear.                                            *)
(* "Only if" is stated of every finished search, "if" of those whose menu  *)
(* fetches all succeeded (C5 is about the others).  An interface is known  *)
(* by its id and its category.                                             *)
(***************************************************************************)
\* the keywords of a class, or the empty keyword when it has none
KeywordsOf(keywords) ==
    IF keywords = <<>> THEN {<<>>} ELSE {keywords[i] : i \in 1..Len(keywords)}

\* some combination of the keywords of crit matches the interface x
SomeCombinationMatches(x, crit) ==
    \E n \in KeywordsOf(crit.nameKeyword), p \in KeywordsOf(crit.pathKeyword),
       t \in KeywordsOf(crit.tagKeyword) :
        /\ n = <<>> \/ ContainsCI(x.title, n)
        /\ p = <<>> \/ ContainsCI(x.path, p)
        /\ t = <<>> \/ \E i \in 1..Len(x.tag) : ContainsCI(x.tag[i], t)

\* the interfaces of the remote's project p
InterfacesOf(p) == {Flatten(MenuData(p))[i] : i \in 1..Len(Flatten(MenuData(p)))}

C12_MatchingInterfaces ==
    \A h \in Done :
        LET candidates == MapKeys(h.projects)
            expected == {x \in UNION {InterfacesOf(p) : p \in candidates} :
                            SomeCombinationMatches(x, h.crit)}
            deduplicated == deduplicateResults(h.allResults)
        IN  /\ \A i \in 1..Len(deduplicated) :
                   \E x \in expected : /\ x._id = deduplicated[i]._id
                                        /\ x.catid = deduplicated[i].catid
            /\ (h.failed = {}) =>
                   /\ \A x \in expected : x._id \in Ids(deduplicated)
                   /\ h.result.total = Cardinality({x._id : x \in expected})

\* a search over two candidates with two name keywords and a tag keyword,
\* all fetches answered: an interface was found by a tag that differs from
\* the keyword in case, and an interface that no combination matches is
\* not among the results
C12_Witness ==
    \E h \in Done :
        /\ Len(h.projects) >= 2
        /\ Len(h.crit.nameKeyword) = 2
        /\ h.crit.tagKeyword = << <<"V">> >>
        /\ h.failed = {}
        /\ 5 \in Ids(h.allResults)
        /\ \E x \in InterfacesOf(1) : x._id \notin Ids(h.allResults)

(***************************************************************************)
(* C13.  Every result of a search carries the display name of its owning   *)
(* candidate project as project_name, and a failure of the category-list   *)
(* lookup of the enrichment neither removes a result nor fails the search: *)
(* the ids of the results are those the fetches matched, whether the       *)
(* lookup succeeds or fails.                                               *)
(***************************************************************************)
C13_EnrichmentKeepsResults ==
    \A h \in Done :
        /\ ~h.threw
        /\ Ids(h.allResults) = MatchedIds(h)
        /\ \A i \in 1..Len(h.allResults) :
               LET item == h.allResults[i]
               IN  \E k \in 1..Len(h.projects) :
                       /\ \E x \in InterfacesOf(h.projects[k].id) :
                              x._id = item._id /\ x.catid = item.catid
                       /\ item.project_name
                              = ProjectData(h.projects[k].id, h.projects[k].rev).name
        /\ \A i \in 1..Len(h.result.list) :
               \E k \in 1..Len(h.allResults) : h.result.list[i] = h.allResults[k]

\* a search returned interfaces of project 1, whose category list could
\* not be looked up, under the name of project 1
C13_Witness ==
    \E h \in Done :
        /\ 1 \in catDown
        /\ 1 \notin categoryListCache
        /\ \E i \in 1..Len(h.result.list) :
               /\ h.result.list[i].catid \in {11, 12}
               /\ h.result.list[i].project_name = ProjectData(1, 0).name

(***************************************************************************)
(* C14.  The {total, list} of a search does not depend on the order in     *)
(* which the remote fetches complete: with the same criteria and the same  *)
(* remote data every interleaving of the completions, those of the         *)
(* project-info fetches that fill the project map included, gives the same *)
(* total and the same list in the same order.                              *)
(* Stated against one of the interleavings: the searches of a run that     *)
(* fetched the info of every credentialed project itself, and whose menu   *)
(* fetches all succeeded, return what the search returns when the info     *)
(* responses arrive in the order of the credential table.  The project map *)
(* keeps its entries in the order of their arrival (api.ts 186), the       *)
(* search scans it in that order (api.ts 397, 434) and nothing sorts what  *)
(* it concatenates.                                                        *)
(***************************************************************************)
\* the project map after the responses for the projects of S arrived in
\* ascending order of their ids
RECURSIVE ArrivedInTableOrder(_)
ArrivedInTableOrder(S) ==
    IF S = {} THEN <<>>
    ELSE LET first == CHOOSE p \in S : \A q \in S : p <= q
         IN  <<[id |-> first, rev |-> 1]>> \o ArrivedInTableOrder(S \ {first})

\* what the fetches from the k-th on give, concatenated
RECURSIVE ConcatFrom(_, _)
ConcatFrom(combos, k) ==
    IF k > Len(combos) THEN <<>>
    ELSE FilterMenu(MenuData(combos[k].project.id), Query(combos[k]))
             \o ConcatFrom(combos, k + 1)

IdSeq(s) == [i \in 1..Len(s) |-> s[i]._id]

C14_CompletionOrderIrrelevant ==
    \A h \in Done :
        (/\ h.failed = {}
         /\ MapKeys(h.projects) = getConfiguredProjectIds
         /\ \A k \in 1..Len(h.projects) : h.projects[k].rev = 1)
        => LET projects == Candidates(ArrivedInTableOrder(getConfiguredProjectIds), h.crit)
               expected == SearchResult(ConcatFrom(Combos(projects, h.crit), 1), h.crit.limit)
           IN  /\ h.result.total = expected.total
               /\ IdSeq(h.result.list) = IdSeq(expected.list)

(***************************************************************************)
(* C15.  A reload refreshes the project-info entries wholesale: after a    *)
(* reload (loadAllProjectInfo, the refresh) has completed with all its     *)
(* fetches succeeding, the entry of every credentialed project holds the   *)
(* value the remote returned during that reload, also for the projects     *)
(* that already had an entry.                                              *)
(* A search has completed its loadAllProjectInfo (api.ts 396) when it      *)
(* fetches menus or has finished, a refresh when it has gone on to persist *)
(* (part_001 87-91).  getProjectInfo returns an entry that is present      *)
(* without asking the remote (api.ts 173-175).                             *)
(***************************************************************************)
ReloadCompleted ==
    \/ search.pc \in {"menu", "enrich"}
    \/ history /= <<>>
    \/ refresh.pc \in {"cats", "done"}

C15_ReloadRefreshesEntries ==
    (ReloadCompleted /\ infoDown \cap getConfiguredProjectIds = {})
    => \A p \in getConfiguredProjectIds :
           \E i \in 1..Len(projectInfoCache) :
               /\ projectInfoCache[i].id = p
               /\ ProjectData(p, projectInfoCache[i].rev) = ProjectData(p, 1)

(***************************************************************************)
(* C16.  get_categories(projectId) for a project that is in the project    *)
(* map returns every category the remote holds for the project, each with  *)
(* its own interface list, in every reachable state, also after a warm     *)
(* start, where the project map came from a snapshot that had not expired  *)
(* and no refresh ran.                                                     *)
(* The interface lists are compared for the categories whose request       *)
(* succeeded.  The tool reads the category-list map and asks for nothing   *)
(* it does not find there (part_001 536-542); a warm start fills the       *)
(* project map alone (part_001 55-57).                                     *)
(***************************************************************************)
C16_CategoriesComplete ==
    (reply.tool = "yapi_get_categories" /\ reply.path = "tool"
        /\ reply.kind /= "unknown project")
    => /\ reply.kind = "categories"
       /\ [i \in 1..Len(reply.categories) |->
              [_id |-> reply.categories[i]._id, name |-> reply.categories[i].name]]
            = CategoryData(reply.projectId)
       /\ \A i \in 1..Len(reply.categories) :
              ~reply.categories[i].failed =>
                  reply.categories[i].list
                      = IdSeq(MenuData(reply.projectId)[i].list)

(***************************************************************************)
(* The credential string as the specification reads it: entries separated  *)
(* by commas, an entry with a colon giving a project its token, split at   *)
(* the first colon, an entry without a colon being a bare default token.   *)
(***************************************************************************)
\* the entries of the credential string t, without the blanks around them
EntriesOf(t) ==
    IF t = <<>> THEN <<>> ELSE [i \in 1..Len(split(t, ",")) |-> trim(split(t, ",")[i])]

HasColon(e) == \E i \in 1..Len(e) : e[i] = ":"

FirstColon(e) == CHOOSE i \in 1..Len(e) : e[i] = ":" /\ \A j \in 1..(i - 1) : e[j] /= ":"

IdOf(e) == SubSeq(e, 1, FirstColon(e) - 1)

TokenOf(e) == SubSeq(e, FirstColon(e) + 1, Len(e))

Last(S) == CHOOSE i \in S : \A j \in S : j <= i

\* the places of the entries that give the project id a token
SpecificPlaces(entries, id) ==
    {i \in 1..Len(entries) :
        HasColon(entries[i]) /\ IdOf(entries[i]) = id /\ TokenOf(entries[i]) /= <<>>}

\* the places of the bare entries
BarePlaces(entries) == {i \in 1..Len(entries) : ~HasColon(entries[i])}

\* the default token the entries give
DefaultOf(entries) ==
    IF BarePlaces(entries) = {} THEN <<>> ELSE entries[Last(BarePlaces(entries))]

\* tokenFor(id) of the specification
TokenFor(entries, id) ==
    IF SpecificPlaces(entries, id) /= {}
    THEN TokenOf(entries[Last(SpecificPlaces(entries, id))])
    ELSE DefaultOf(entries)

\* the ids looked up
LookupIds == {<<"1">>, <<"2">>, <<"9">>, <<"1", "0">>, <<"9", "9">>}

\* getToken on the outcome of a parse
Lookup(parsed, id) ==
    IF id \in DOMAIN parsed.tokenMap THEN parsed.tokenMap[id] ELSE parsed.defaultToken

Reorderings(n) == {f \in [1..n -> 1..n] : \A i, j \in 1..n : i /= j => f[i] /= f[j]}

(***************************************************************************)
(* C17.  For every credential string getToken(id) is the project's own     *)
(* token if one was given for id, else the default token, else the empty   *)
(* string; of two entries for one id the last wins; and reordering entries *)
(* that have distinct ids and at most one bare default changes no lookup.  *)
(* "10:abc,20:def,xyz" gives "abc" for "10" and "xyz" for "99".            *)
(* It fails on the strings on which C18 and C19 fail.                      *)
(***************************************************************************)
C17_TokenLookup ==
    (phase = "constructed") =>
        LET entries == EntriesOf(token)
            coloned == {i \in 1..Len(entries) : HasColon(entries[i])}
        IN  /\ \A id \in LookupIds : getToken(id) = TokenFor(entries, id)
            /\ (token = ScenarioToken) =>
                   /\ getToken(<<"1", "0">>) = <<"a", "b", "c">>
                   /\ getToken(<<"9", "9">>) = <<"x", "y", "z">>
            /\ (/\ \A i, j \in coloned : i /= j => IdOf(entries[i]) /= IdOf(entries[j])
                /\ Cardinality(BarePlaces(entries)) <= 1)
               => \A f \in Reorderings(Len(entries)) :
                      LET reordered == JoinFrom([i \in 1..Len(entries) |-> entries[f[i]]], 1)
                      IN  \A id \in LookupIds :
                              Lookup(ParseToken(reordered), id) = getToken(id)

(***************************************************************************)
(* C18.  Every comma-separated entry is split at its first colon into      *)
(* (projectId, token): the token stored for projectId is all that follows  *)
(* the first colon, so that "10:a:b" stores "a:b" for project "10".        *)
(* Stated of the last entry that gives a project a token.  The code splits *)
(* at every colon and takes the second piece (api.ts 34).                  *)
(***************************************************************************)
C18_SplitAtFirstColon ==
    (phase = "constructed") =>
        LET entries == EntriesOf(token)
        IN  \A i \in 1..Len(entries) :
                (/\ HasColon(entries[i])
                 /\ IdOf(entries[i]) /= <<>>
                 /\ i \in SpecificPlaces(entries, IdOf(entries[i]))
                 /\ \A j \in SpecificPlaces(entries, IdOf(entries[i])) : j <= i)
                => /\ IdOf(entries[i]) \in DOMAIN tokenMap
                   /\ tokenMap[IdOf(entries[i])] = TokenOf(entries[i])

(***************************************************************************)
(* C19.  An entry sets the default token only if it has no colon, and the  *)
(* last such entry wins; an entry with a colon ("10:", ":tok") never       *)
(* becomes the default; the empty input gives an empty table and an empty  *)
(* default.                                                                *)
(* The code tests the first piece of the split entry for a colon, which it *)
(* cannot hold (api.ts 37): every entry that is not stored in the table    *)
(* becomes the default.                                                    *)
(***************************************************************************)
C19_DefaultOnlyFromBareEntries ==
    (phase = "constructed") =>
        /\ defaultToken = DefaultOf(EntriesOf(token))
        /\ ~HasColon(defaultToken)
        /\ (token = <<>>) => (DOMAIN tokenMap = {} /\ defaultToken = <<>>)

(***************************************************************************)
(* C20.  When no token resolves for the project (none of its own and no    *)
(* default), a remote call fails with an authentication error that can be  *)
(* told from the error of a transport failure, and no HTTP request is      *)
(* issued.                                                                 *)
(* The Error for the missing token is thrown inside the try of request     *)
(* (api.ts 82-84), and its catch throws the one Error it has for all that  *)
(* is not a response of the remote (api.ts 110).                           *)
(***************************************************************************)
C20_AuthErrorDistinct ==
    (reply.tool = "request" /\ reply.cause = "no token")
    => /\ ~reply.issued
       /\ reply.thrown /= <<>>
       /\ reply.thrown /= <<Rethrown(NoResponseError)>>

(***************************************************************************)
(* The operations, the tools and their errors.                             *)
(***************************************************************************)
\* the reply is that of an operation whose request the remote refused in
\* its envelope
RefusedCall(r) ==
    /\ r.tool \in Operations
    /\ ~r.cached
    /\ getToken(r.projectId) /= <<>>
    /\ r.answer.kind = "envelope"
    /\ r.answer.errcode /= 0

\* C21: when the remote answers the request of an operation (get interface,
\* save interface, project info, category list, menu) with an envelope whose
\* error code is not zero, the operation throws an error, which carries the
\* message of the envelope as it is when the envelope has one, it returns
\* nothing, neither cache map changes, and exactly one request was issued.
C21_RemoteErrorVerbatim ==
    [][RefusedCall(reply') =>
          /\ Len(reply'.calls) = 1
          /\ Len(reply'.thrown) = 1
          /\ "status" \notin DOMAIN reply'.thrown[1]
          /\ (reply'.answer.errmsg /= "" =>
                  reply'.thrown[1].message = reply'.answer.errmsg)
          /\ reply'.value = <<>>
          /\ UNCHANGED <<projectInfoCache, categoryListCache, persisted>>]_vars

\* a refused /api/project/get for a project without an entry: the message
\* "denied" is thrown and the project has no entry afterwards
C21_Witness ==
    /\ RefusedCall(reply)
    /\ reply.tool = "getProjectInfo"
    /\ reply.answer.errmsg = "denied"
    /\ reply.thrown = <<Error("denied")>>
    /\ Len(reply.calls) = 1
    /\ ~MapHas(projectInfoCache, reply.projectId)

\* the reply is that of a save whose fields all parse, for a project that
\* has a token
SaveSubmitted(r) ==
    /\ r.tool = "yapi_save_api"
    /\ getToken(r.args.projectId) /= <<>>
    /\ \A f \in {"tag", "req_params", "req_query", "req_headers", "req_body_form"} :
           ~Fails(r.args[f])

\* C22: on both entry paths a save issues exactly one request, a POST to
\* /api/interface/add when no id was given and to /api/interface/up when one
\* was, and when the remote accepts it the caller gets the _id of the
\* remote's answer.
C22_SaveCreatesOrUpdates ==
    SaveSubmitted(reply) =>
        /\ Len(reply.calls) = 1
        /\ reply.calls[1].method = "POST"
        /\ reply.calls[1].endpoint =
               (IF reply.args.id = <<>> THEN "/api/interface/add" ELSE "/api/interface/up")
        /\ (reply.answer = Envelope(0, "ok", TRUE) =>
                reply.result.kind = "saved" /\ reply.result.id = <<reply.saved>>)

\* the tool was called with an id, the update was accepted and the id 42 of
\* the answer came back
C22_Witness ==
    /\ SaveSubmitted(reply)
    /\ reply.path = "tool"
    /\ reply.args.id = <<"4", "2">>
    /\ reply.calls[1].endpoint = "/api/interface/up"
    /\ reply.result.kind = "saved"
    /\ reply.result.id = <<42>>

\* the JSON-encoded fields whose parse failure is to be reported
StructuredFields == {"req_params", "req_query", "req_headers", "req_body_form"}

\* C23: on both entry paths, a save in which one of req_params, req_query,
\* req_headers and req_body_form does not parse (its tag, if one is
\* supplied, decoding) issues no request and returns an error that names a
\* field that did not parse.
C23_ParseFailureRejected ==
    (/\ reply.tool = "yapi_save_api"
     /\ ~Fails(reply.args.tag)
     /\ \E f \in StructuredFields : Fails(reply.args[f]))
        => /\ reply.calls = <<>>
           /\ reply.result.kind = "error"
           /\ reply.result.field \in {f \in StructuredFields : Fails(reply.args[f])}

\* C24: a save whose tag does not decode, its other fields parsing and its
\* project having a token, issues its request all the same, with the tag as
\* it is when none was supplied (not set, or the empty list).
C24_TagDecodeNonFatal ==
    (/\ reply.tool = "yapi_save_api"
     /\ Fails(reply.args.tag)
     /\ getToken(reply.args.projectId) /= <<>>
     /\ \A f \in StructuredFields : ~Fails(reply.args[f]))
        => /\ Len(reply.calls) = 1
           /\ reply.calls[1].params.tag \in {Undefined, Parsed(<<>>)}

\* the service call of a tool fails: no token resolves (auth), the
\* transport or the remote's status fails, the remote refuses in its
\* envelope, or the response is malformed (no envelope, or no data)
ServiceFails(projectId, answer) ==
    getToken(projectId) = <<>> \/ answer /= Envelope(0, "ok", TRUE)

\* the handler returned an error result with a message
ReportsError(result) == result.kind = "error" /\ result.message /= ""

\* C25: no handler of a registered tool lets an error escape, and whenever
\* the service call a tool makes fails (auth, transport, remote error,
\* malformed response) the handler returns a result that carries an error
\* message: the error text of get_api_desc, save_api and the two searches,
\* and for get_categories, in the entry of every category whose request
\* failed (the remote failed it, or the project has no token), the text of
\* the error.  (The replies of the registered tools are those of the path
\* "tool"; the debug endpoint is no registered tool.)
C25_NoErrorEscapes ==
    /\ reply.tool \in {"yapi_get_api_desc", "yapi_save_api", "yapi_search_by_name",
                       "yapi_search_by_path", "yapi_list_projects",
                       "yapi_get_categories"}
           => reply.escaped = <<>>
    /\ (reply.tool = "yapi_get_api_desc" /\ reply.path = "tool"
            /\ ServiceFails(reply.input.projectId, reply.input.answer))
           => ReportsError(reply.result)
    /\ (reply.tool = "yapi_save_api" /\ reply.path = "tool"
            /\ ServiceFails(reply.args.projectId, reply.answer))
           => ReportsError(reply.result)
    /\ (reply.tool \in {"yapi_search_by_name", "yapi_search_by_path"}
            /\ reply.path = "tool")
           => IF reply.settled.thrown /= <<>> THEN ReportsError(reply.result)
              ELSE /\ reply.result.kind = "found"
                   /\ reply.result.total = reply.settled.value[1].total
    /\ (reply.tool = "yapi_get_categories" /\ reply.path = "tool"
            /\ reply.kind = "categories")
           => \A i \in 1..Len(reply.categories) :
                  (\/ getToken(reply.projectId) = <<>>
                   \/ reply.categories[i]._id \in reply.failing)
                      => reply.categories[i].error /= ""

\* get_api_desc for a project with a token, the remote not responding: the
\* handler returned the text of the communication error
C25_Witness ==
    /\ reply.tool = "yapi_get_api_desc"
    /\ reply.path = "tool"
    /\ getToken(reply.input.projectId) /= <<>>
    /\ reply.input.answer = NoResponse
    /\ Len(reply.calls) = 1
    /\ reply.escaped = <<>>
    /\ reply.result = ErrorResult("none", CommunicationFailed)

\* the criteria by what selects the candidates: the project keyword and the
\* largest number of projects
ProjectFilters ==
    {crit \in SearchCriteria :
        /\ crit.nameKeyword = <<>> /\ crit.pathKeyword = <<>> /\ crit.tagKeyword = <<>>
        /\ crit.limit = 0 /\ crit.maxProjects = DefaultMaxProjects}

\* the number of requests of a kind for project p among the requests fl
Requests(kind, p, fl) ==
    BagCardinality([f \in {g \in BagToSet(fl) : g.kind = kind /\ g.pid = p} |-> fl[f]])

\* C27: getProjectInfo and getCategoryList issue no request and return the
\* entry when the project has one (no step adds a request for a project
\* that has its entry, and a call that found the entry returned it with no
\* request); when they throw (no token, a failure of
\* the transport, a refusal of the remote) both cache maps are as before;
\* and a project whose /api/project/get never succeeds is not in the
\* project map, not in the list of yapi_list_projects and not among the
\* candidates of any search (which are selected from the map, so they are
\* looked at whenever the map changes).
\* The list of the registered tool is made of the project map (part_001
\* 493-499); the list yapi_list_projects gives on the debug endpoint is made
\* of the configured project ids (part_001 688-699) and shows a project
\* without an entry as an unknown project.
C27_CacheFrame ==
    [][/\ \A p \in ProjectIds :
           /\ MapHas(projectInfoCache, p)
                  => Requests("info", p, inflight') <= Requests("info", p, inflight)
           /\ p \in categoryListCache
                  => Requests("cat", p, inflight') <= Requests("cat", p, inflight)
       /\ (reply'.tool = "getProjectInfo" /\ reply'.cached)
           => reply'.calls = <<>> /\ reply'.value = ProjectEntry(reply'.projectId)
       /\ (reply'.tool = "getCategoryList" /\ reply'.cached)
           => reply'.calls = <<>> /\ reply'.value = CategoryEntry(reply'.projectId)
       /\ (reply'.tool \in {"getProjectInfo", "getCategoryList"} /\ reply'.thrown /= <<>>)
           => UNCHANGED <<projectInfoCache, categoryListCache>>
       /\ \A p \in infoDown :
           /\ ~MapHas(projectInfoCache', p)
           /\ reply'.tool = "yapi_list_projects"
                  => \A i \in 1..Len(reply'.result.projects) :
                         reply'.result.projects[i].id /= p
           /\ projectInfoCache' /= projectInfoCache
                  => \A crit \in ProjectFilters :
                         p \notin MapKeys(Candidates(projectInfoCache', crit))]_vars

\* C26: the expiry check of the snapshot is true when no load was ever
\* persisted (cacheAge is -1) and when the minutes since the last one exceed
\* the TTL, and false when they are at most the TTL: at exactly the TTL the
\* snapshot is not expired.
C26_ExpiryAtBoundary ==
    /\ cacheAge < 0 => isCacheExpired
    /\ cacheAge > CacheTTL => isCacheExpired
    /\ (0 <= cacheAge /\ cacheAge <= CacheTTL) => ~isCacheExpired

\* the server started on a snapshot whose age is exactly the TTL: it took
\* the snapshot for valid, loaded it and started no refresh
C26_Witness ==
    /\ phase = "ready"
    /\ cacheAge = CacheTTL
    /\ ~isCacheExpired
    /\ persisted /= <<>>
    /\ projectInfoCache = persisted
    /\ refresh.pc = "none"

\* the menu requests among the requests in flight
MenuFetches(fl) == [f \in {g \in BagToSet(fl) : g.kind = "menu"} |-> fl[f]]

\* getInterfaceMenu fails for the j-th combination before any request
Tokenless(combos, j) == getToken(combos[j].project.id) = <<>>

Max1(n) == IF n > 1 THEN n ELSE 1

\* C28: a search calls getInterfaceMenu once for each of its
\* c * max(1,n) * max(1,p) * max(1,t) combinations, in the order of the
\* projects, then of the name, path and tag keywords, one at a time.  Stated
\* of every step: at most one menu request is in flight and none while an
\* enrichment waits; a step that issues one issues it for the next
\* combination after the one handled last (the combinations passed over are
\* those of a project without a token, whose call fails before a request is
\* sent), with no category request of the search outstanding; and the search
\* ends only when no combination is left.
C28_MenuFetchPerCombination ==
    [][LET before == IF search.pc \in {"menu", "enrich"} THEN search.idx ELSE 0
           issues == search'.pc = "menu" /\ (search.pc /= "menu" \/ search'.idx /= search.idx)
           ends == Len(history') > Len(history)
       IN  /\ BagCardinality(MenuFetches(inflight')) <= 1
           /\ search'.pc = "enrich" => MenuFetches(inflight') = EmptyBag
           /\ MenuFetches(inflight') /= EmptyBag => search'.pc = "menu"
           /\ issues =>
                  LET combos == Combos(search'.projects, search'.crit)
                  IN  /\ search'.idx > before
                      /\ search'.idx <= Len(combos)
                      /\ \A j \in (before + 1)..(search'.idx - 1) : Tokenless(combos, j)
                      /\ MenuFetches(inflight') =
                             SetToBag({Fetch(Len(history') + 1, "menu",
                                             combos[search'.idx].project.id)})
                      /\ ~\E f \in BagToSet(inflight') : f.kind = "cat" /\ f.owner = Len(history') + 1
           /\ ends =>
                  LET h == history'[Len(history')]
                      combos == Combos(h.projects, h.crit)
                  IN  /\ \A j \in (before + 1)..Len(combos) : Tokenless(combos, j)
                      /\ Len(combos) = Len(h.projects) * Max1(Len(h.crit.nameKeyword))
                                           * Max1(Len(h.crit.pathKeyword))
                                           * Max1(Len(h.crit.tagKeyword))]_vars

\* a search of two projects that have tokens for two name keywords and a
\* path keyword has ended: four combinations, four menu requests
C28_Witness ==
    \E h \in Done :
        /\ Len(h.projects) = 2
        /\ \A i \in 1..2 : getToken(h.projects[i].id) /= <<>>
        /\ Len(h.crit.nameKeyword) = 2
        /\ Len(h.crit.pathKeyword) = 1
        /\ Len(Combos(h.projects, h.crit)) = 4
        /\ h.failed = {}

\* C29: loadAllProjectInfo and loadAllCategoryLists never reject: the
\* refresh fails only when the snapshot cannot be written, no search fails,
\* whatever became of the project-info requests, and while the
\* /api/project/get of every credentialed project fails and the project map
\* is empty every search has returned {total: 0, list: []}.
C29_LoadsNeverReject ==
    /\ refresh.pc = "failed" => "save" \in diskFault
    /\ \A h \in Done : ~h.threw
    /\ (getConfiguredProjectIds \subseteq infoDown /\ projectInfoCache = <<>>)
           => \A h \in Done : h.result = [total |-> 0, list |-> <<>>]

\* the projects 1 and 2 have tokens, the remote fails both
\* /api/project/get, and a search has ended with the empty result
C29_Witness ==
    /\ getConfiguredProjectIds = {1, 2}
    /\ infoDown = {1, 2}
    /\ projectInfoCache = <<>>
    /\ Len(history) >= 1
    /\ ~history[1].threw
    /\ history[1].result = [total |-> 0, list |-> <<>>]

\* C30: the page of the criteria has no effect: two searches whose criteria
\* differ in nothing but the page, and for which the remote failed the same
\* menu requests, returned the same total and the same list.
C30_PageHasNoEffect ==
    \A h1, h2 \in Done :
        ([h1.crit EXCEPT !.page = h2.crit.page] = h2.crit /\ h1.failed = h2.failed)
            => h1.result = h2.result

\* a search for page 1 and one for page 2, alike otherwise, that found more
\* than the limit: both returned the same first entries
C30_Witness ==
    /\ Len(history) = 2
    /\ history[1].crit.page = 1
    /\ history[2].crit = [history[1].crit EXCEPT !.page = 2]
    /\ history[1].failed = history[2].failed
    /\ history[1].crit.limit >= 1
    /\ history[1].result.total > history[1].crit.limit
    /\ Len(history[2].result.list) = history[1].crit.limit
    /\ history[1].result = history[2].result

====
